---- MODULE Spec2Model ----
(***************************************************************************)
(* A model of the FBReader string-resource translator.                     *)
(*                                                                         *)
(*   auto_translator.py : XMLHandler, Unpacker, Packer (last-write-wins)   *)
(*   fbtranslator.py    : Packer (multi-origin)                            *)
(*                                                                         *)
(* Python strings are sequences of one-character strings, so that prefix   *)
(* tests, upper-casing, joining, splitting and XML text parsing are        *)
(* computed the way the code computes them.  Python dicts are functions;   *)
(* where the code depends on dict order the order is modelled explicitly.  *)
(***************************************************************************)
EXTENDS Integers, Sequences, FiniteSets, TLC

VARIABLES
    \* ---- auto_translator.py: disk ----
    in_zip,             \* the input archive: relative path (parts) -> file
    extracted,          \* the <stem>_extracted directory: path -> file
    out_xml,            \* the flattened ledger file
    map_file,           \* the map file: a sequence of lines
    in_xml,             \* the translated ledger file handed to Packer
    translated_temp,    \* the translated_temp directory: path string -> file
    \* ---- auto_translator.py: objects ----
    extract_dir,        \* Unpacker.extract_dir: "None" or "set"
    u_map_data,         \* Unpacker.map_data
    fl,                 \* return value and duplicate warnings of the last flatten
    target_lang_suffix, \* Packer.target_lang_suffix
    p_map_data,         \* Packer.map_data
    translated_entries, \* Packer.translated_entries
    gen,                \* counters and return value of the last Packer.generate
    pc,                 \* the pipeline stage reached ("reflat": flatten has
                        \* overwritten the files of an earlier flatten)
    \* ---- fbtranslator.py ----
    fb,                 \* Packer object, its files and the result of generate
    \* ---- the language selection of the GUI ----
    lg,                 \* last set_target_language call and how it was made
    \* ---- auto_translator.py: XMLHandler alone ----
    codec,              \* a mapping or a file, and what the codec made of it
    \* ---- auto_translator.py: translate_xml ----
    tx,                 \* the running translate_xml call, its files and event
    \* ---- auto_translator.py: App._run_all_steps_task ----
    task,               \* the worker's position, the stages run, the stop event
    \* ---- fbtranslator.py: Unpacker ----
    fu,                 \* Unpacker object, its files and the result of flatten
    \* ---- fbtranslator_gui.py ----
    gui,                \* XMLZipTranslatorApp: fields, disk, and the last run
    \* ---- auto_translator.py: Packer.pack ----
    out_zip,            \* the output archive and the packs made on its location
    \* ---- auto_translator.py: App, its worker threads ----
    app                 \* buttons, App.stop_event, the workers and their events

atVars == <<in_zip, extracted, out_xml, map_file, in_xml, translated_temp,
            extract_dir, u_map_data, fl, target_lang_suffix,
            p_map_data, translated_entries, gen, pc>>
vars == <<in_zip, extracted, out_xml, map_file, in_xml, translated_temp,
          extract_dir, u_map_data, fl, target_lang_suffix,
          p_map_data, translated_entries, gen, pc, fb, lg,
          codec, tx, task, fu, gui, out_zip, app>>
\* The variables of the components added after the pipeline.
moreVars == <<codec, tx, task, fu, gui, out_zip, app>>

\* Python's None, where a str may stand: no str holds this element.
None == <<"None">>
\* A file of the disk: absent, or present with its content.
NoFile == [exists |-> FALSE, content |-> <<>>]
File(content) == [exists |-> TRUE, content |-> content]

(***************************************************************************)
(* Bounds                                                                  *)
(***************************************************************************)
\* The largest number of resource files in the input archive.
MaxFiles == 2
\* The largest number of records in a fbtranslator mapping file.
MaxMapLines == 3
\* The largest number of Packer.generate calls of fbtranslator on one
\* output directory.
MaxRuns == 2

(***************************************************************************)
(* Characters and strings                                                  *)
(***************************************************************************)
LowerCase == <<"a","b","c","d","e","f","g","h","i","j","k","l","m",
               "n","o","p","q","r","s","t","u","v","w","x","y","z">>
UpperCase == <<"A","B","C","D","E","F","G","H","I","J","K","L","M",
               "N","O","P","Q","R","S","T","U","V","W","X","Y","Z">>
DigitChars == <<"0","1","2","3","4","5","6","7","8","9">>
\* The characters used, in code-point order (Python compares str that way).
CodePoints == <<" ", "&", "-", ".", "/">> \o DigitChars
              \o <<":", ";", "<", ">">> \o UpperCase \o LowerCase

Range(s) == {s[i] : i \in 1..Len(s)}
Letters == Range(LowerCase) \cup Range(UpperCase)

ord(c) == CHOOSE i \in 1..Len(CodePoints) : CodePoints[i] = c

\* str.__lt__
RECURSIVE StrLess(_, _)
StrLess(a, b) ==
    IF a = <<>> THEN b # <<>>
    ELSE IF b = <<>> THEN FALSE
    ELSE IF Head(a) = Head(b) THEN StrLess(Tail(a), Tail(b))
    ELSE ord(Head(a)) < ord(Head(b))

\* sorted(keys)
RECURSIVE sorted(_)
sorted(S) ==
    IF S = {} THEN <<>>
    ELSE LET m == CHOOSE x \in S : \A y \in S \ {x} : StrLess(x, y)
         IN  <<m>> \o sorted(S \ {m})

\* str.startswith
startswith(s, p) == Len(s) >= Len(p) /\ SubSeq(s, 1, Len(p)) = p

\* str.upper
upper(s) ==
    [i \in 1..Len(s) |->
        IF \E j \in 1..Len(LowerCase) : LowerCase[j] = s[i]
        THEN UpperCase[CHOOSE j \in 1..Len(LowerCase) : LowerCase[j] = s[i]]
        ELSE s[i]]

\* str.lower
lower(s) ==
    [i \in 1..Len(s) |->
        IF \E j \in 1..Len(UpperCase) : UpperCase[j] = s[i]
        THEN LowerCase[CHOOSE j \in 1..Len(UpperCase) : UpperCase[j] = s[i]]
        ELSE s[i]]

\* str.strip
RECURSIVE lstrip(_)
lstrip(s) == IF s # <<>> /\ Head(s) = " " THEN lstrip(Tail(s)) ELSE s
RECURSIVE rstrip(_)
rstrip(s) ==
    IF s # <<>> /\ s[Len(s)] = " " THEN rstrip(SubSeq(s, 1, Len(s) - 1)) ELSE s
strip(s) == rstrip(lstrip(s))

\* The position of the first c in s, 0 when there is none (str.find + 1).
RECURSIVE find_from(_, _, _)
find_from(s, c, i) ==
    IF i > Len(s) THEN 0 ELSE IF s[i] = c THEN i ELSE find_from(s, c, i + 1)
find(s, c) == find_from(s, c, 1)

\* sep.join(parts)
RECURSIVE join(_, _)
join(parts, sep) ==
    IF parts = <<>> THEN <<>>
    ELSE IF Len(parts) = 1 THEN parts[1]
    ELSE parts[1] \o <<sep>> \o join(Tail(parts), sep)

\* str.split(sep)
RECURSIVE split(_, _)
split(s, sep) ==
    LET i == find(s, sep)
    IN  IF i = 0 THEN <<s>>
        ELSE <<SubSeq(s, 1, i - 1)>> \o split(SubSeq(s, i + 1, Len(s)), sep)

\* s occurs in raw at position i
at(raw, i, s) == i + Len(s) - 1 <= Len(raw) /\ SubSeq(raw, i, i + Len(s) - 1) = s

(***************************************************************************)
(* Paths (pathlib)                                                         *)
(***************************************************************************)
os_sep == "/"

\* pathlib.PurePosixPath(str).parts for a relative path: empty and "."
\* components are dropped.
path_parts(s) ==
    LET raw == split(s, os_sep)
        keep == {i \in 1..Len(raw) : raw[i] # <<>> /\ raw[i] # <<".">>}
        RECURSIVE pick(_)
        pick(i) == IF i > Len(raw) THEN <<>>
                   ELSE (IF i \in keep THEN <<raw[i]>> ELSE <<>>) \o pick(i + 1)
    IN  pick(1)

\* str(path)
path_str(parts) == IF parts = <<>> THEN <<".">> ELSE join(parts, os_sep)

(***************************************************************************)
(* XMLHandler                                                              *)
(***************************************************************************)
\* A resource file is a sequence of <string> elements [name, raw]: raw is the
\* character content between <string name="..."> and </string> as it stands
\* in the file.  The header and the <resources> frame are the same in every
\* file and are left out.

ParseError == [ok |-> FALSE, text |-> <<>>]

\* The XML parser on the content of one element.  "&" must start one of the
\* entities &amp; &lt; &gt;, "<" must open or close a child element (one-letter
\* tag names, no attributes); read_entries keeps the element's own text and
\* the tails of its direct children, not what is inside a child.
RECURSIVE scan(_, _, _, _)
scan(raw, i, open, acc) ==
    LET add(c) == IF open = <<>> THEN Append(acc, c) ELSE acc
    IN  IF i > Len(raw)
        THEN IF open = <<>> THEN [ok |-> TRUE, text |-> acc] ELSE ParseError
        ELSE IF raw[i] = "&"
        THEN IF at(raw, i, <<"&","a","m","p",";">>) THEN scan(raw, i + 5, open, add("&"))
             ELSE IF at(raw, i, <<"&","l","t",";">>) THEN scan(raw, i + 4, open, add("<"))
             ELSE IF at(raw, i, <<"&","g","t",";">>) THEN scan(raw, i + 4, open, add(">"))
             ELSE ParseError
        ELSE IF raw[i] = "<"
        THEN IF i + 2 <= Len(raw) /\ raw[i + 1] \in Letters /\ raw[i + 2] = ">"
             THEN scan(raw, i + 3, Append(open, raw[i + 1]), acc)
             ELSE IF /\ i + 3 <= Len(raw) /\ raw[i + 1] = "/" /\ raw[i + 3] = ">"
                     /\ open # <<>> /\ open[Len(open)] = raw[i + 2]
             THEN scan(raw, i + 4, SubSeq(open, 1, Len(open) - 1), acc)
             ELSE ParseError
        ELSE scan(raw, i + 1, open, add(raw[i]))

element_text(raw) == scan(raw, 1, <<>>, <<>>)

\* dict: the empty dict is the function with the empty domain.
EmptyDict == <<>>
dict_set(d, k, v) == [x \in DOMAIN d \cup {k} |-> IF x = k THEN v ELSE d[x]]

\* read_entries with an element that does not parse left out and the other
\* elements of the file kept.
read_entries_lenient(xml_file) ==
    LET file == xml_file.content
        good == {i \in 1..Len(file) : element_text(file[i].raw).ok}
        names == {file[i].name : i \in good}
        last(n) == CHOOSE i \in good :
                       /\ file[i].name = n
                       /\ \A j \in good : j > i => file[j].name # n
    IN  IF ~xml_file.exists THEN EmptyDict
        ELSE [n \in names |-> strip(element_text(file[last(n)].raw).text)]

\* XMLHandler.read_entries: {} for a missing or unparsable file; a repeated
\* name keeps its last text.
read_entries(xml_file) ==
    LET file == xml_file.content
    IN  IF ~xml_file.exists THEN EmptyDict
        ELSE IF \E i \in 1..Len(file) : ~element_text(file[i].raw).ok THEN EmptyDict
        ELSE LET names == {file[i].name : i \in 1..Len(file)}
                 last(n) == CHOOSE i \in 1..Len(file) :
                                /\ file[i].name = n
                                /\ \A j \in (i + 1)..Len(file) : file[j].name # n
             IN  [n \in names |-> strip(element_text(file[last(n)].raw).text)]

\* XMLHandler.write_entries: one element per name, in sorted order, the text
\* written between the tags as it is.
write_entries(entries) ==
    LET sorted_names == sorted(DOMAIN entries)
    IN  File([i \in 1..Len(sorted_names) |->
                [name |-> sorted_names[i], raw |-> entries[sorted_names[i]]]])

(***************************************************************************)
(* Inputs: names, texts, paths, archives                                   *)
(***************************************************************************)
K1 == <<"k", "1">>
K2 == <<"k", "2">>
Names == {K1, K2}

Hi == <<"H", "i">>
Bye == <<"B", "y", "e">>
\* The text A&B as a well-formed resource file holds it.
AmpRaw == <<"A", "&", "a", "m", "p", ";", "B">>
AmpText == <<"A", "&", "B">>
\* The raw contents a source file may give each name.
RawsOf(n) == IF n = K1 THEN {Hi, AmpRaw} ELSE {Bye}

values == <<"v", "a", "l", "u", "e", "s">>
values_en == values \o <<"-", "e", "n">>
s_xml == <<"s", ".", "x", "m", "l">>
s2_xml == <<"s", "2", ".", "x", "m", "l">>
x_xml == <<"x", ".", "x", "m", "l">>
strings_xml == <<"s", "t", "r", "i", "n", "g", "s", ".", "x", "m", "l">>
res == <<"r", "e", "s">>
layout == <<"l", "a", "y", "o", "u", "t">>

\* Relative paths of resource files, as tuples of path components.
Paths == { << <<"a">>, values, s_xml >>,
           << <<"a">>, values_en, s_xml >>,
           << <<"b">>, values_en, s2_xml >>,
           << res, values, strings_xml >>,
           << res, layout, x_xml >> }

\* Well-formed resource files over the names S: every name once.
FilesOver(S) ==
    { File([i \in 1..Len(sorted(S)) |->
               [name |-> sorted(S)[i], raw |-> f[sorted(S)[i]]]])
      : f \in { g \in [S -> {Hi, AmpRaw, Bye}] : \A n \in S : g[n] \in RawsOf(n) } }

\* The files an archive may hold at a path; only a layout file may hold no
\* <string> element at all.
FileContents(path) ==
    UNION { FilesOver(S)
            : S \in {T \in SUBSET Names : T # {} \/ path[2] = layout} }

Archives ==
    UNION { { a \in [D -> UNION {FileContents(p) : p \in D}] :
                \A p \in D : a[p] \in FileContents(p) }
            : D \in {S \in SUBSET Paths : Cardinality(S) <= MaxFiles} }

\* The orders in which a directory walk may return the files of a set.
RECURSIVE Walks(_)
Walks(S) ==
    IF S = {} THEN {<<>>}
    ELSE UNION { { <<p>> \o w : w \in Walks(S \ {p}) } : p \in S }

(***************************************************************************)
(* auto_translator.py: Unpacker                                            *)
(***************************************************************************)
unknown == <<"u", "n", "k", "n", "o", "w", "n">>

\* str.replace(old, new) for one-character old and new
replace(s, old, new) == [i \in 1..Len(s) |-> IF s[i] = old THEN new ELSE s[i]]

\* The keys of the dict read_entries builds, in insertion order.
RECURSIVE keys_from(_, _)
keys_from(file, seen) ==
    IF file = <<>> THEN <<>>
    ELSE IF Head(file).name \in seen THEN keys_from(Tail(file), seen)
    ELSE <<Head(file).name>> \o keys_from(Tail(file), seen \cup {Head(file).name})
entry_keys(file) == keys_from(file, {})

\* flatten_entries with the first text and path of a name kept: the warning is
\* printed but the entry is not overwritten.
RECURSIVE flatten_entries_first_wins(_, _, _, _)
flatten_entries_first_wins(keys, entries, relative_path_str, st) ==
    IF keys = <<>> THEN st
    ELSE LET name == Head(keys)
             text == entries[name]
             known == name \in DOMAIN st.all_entries
             dup == known /\ st.all_entries[name] # text
         IN  flatten_entries_first_wins(Tail(keys), entries, relative_path_str,
                [all_entries |-> IF known THEN st.all_entries
                                 ELSE dict_set(st.all_entries, name, text),
                 map_data |-> IF known THEN st.map_data
                              ELSE dict_set(st.map_data, name, relative_path_str),
                 warnings |-> IF dup
                              THEN Append(st.warnings,
                                          [name |-> name,
                                           path |-> relative_path_str,
                                           original |-> st.map_data[name]])
                              ELSE st.warnings,
                 xml_files_found |-> st.xml_files_found])

\* flatten_entries with the path of a name recorded only the first time the
\* name is met, while the text is overwritten every time.
RECURSIVE flatten_entries_keep_path(_, _, _, _)
flatten_entries_keep_path(keys, entries, relative_path_str, st) ==
    IF keys = <<>> THEN st
    ELSE LET name == Head(keys)
             text == entries[name]
             known == name \in DOMAIN st.all_entries
         IN  flatten_entries_keep_path(Tail(keys), entries, relative_path_str,
                [all_entries |-> dict_set(st.all_entries, name, text),
                 map_data |-> IF known THEN st.map_data
                              ELSE dict_set(st.map_data, name, relative_path_str),
                 warnings |-> st.warnings,
                 xml_files_found |-> st.xml_files_found])

\* Unpacker.flatten, the loop over entries.items() of one file.
RECURSIVE flatten_entries(_, _, _, _)
flatten_entries(keys, entries, relative_path_str, st) ==
    IF keys = <<>> THEN st
    ELSE LET name == Head(keys)
             text == entries[name]
             dup == name \in DOMAIN st.all_entries /\ st.all_entries[name] # text
             original_location ==
                 IF name \in DOMAIN st.map_data THEN st.map_data[name] ELSE unknown
         IN  flatten_entries(Tail(keys), entries, relative_path_str,
                [all_entries |-> dict_set(st.all_entries, name, text),
                 map_data |-> dict_set(st.map_data, name, relative_path_str),
                 warnings |-> IF dup
                              THEN Append(st.warnings,
                                          [name |-> name,
                                           path |-> relative_path_str,
                                           original |-> original_location])
                              ELSE st.warnings,
                 xml_files_found |-> st.xml_files_found])

\* Unpacker.flatten, the body of the loop over the files: entries is what
\* read_entries returned for the file.
flatten_file(xml_file_path, dir, entries, st) ==
    IF DOMAIN entries = {}
    THEN [st EXCEPT !.xml_files_found = @ + 1]
    ELSE flatten_entries(entry_keys(dir[xml_file_path].content), entries,
                         path_str(xml_file_path),
                         [st EXCEPT !.xml_files_found = @ + 1])

\* flatten_walk with "break" for "continue": the walk ends at the first file
\* without entries.
RECURSIVE flatten_walk_break(_, _, _)
flatten_walk_break(walk, dir, st) ==
    IF walk = <<>> THEN st
    ELSE IF DOMAIN read_entries(dir[Head(walk)]) = {}
    THEN [st EXCEPT !.xml_files_found = @ + 1]
    ELSE flatten_walk_break(Tail(walk), dir,
             flatten_file(Head(walk), dir, read_entries(dir[Head(walk)]), st))

\* Unpacker.flatten, the loop over the files the directory walk returns.
RECURSIVE flatten_walk(_, _, _)
flatten_walk(walk, dir, st) ==
    IF walk = <<>> THEN st
    ELSE flatten_walk(Tail(walk), dir,
             flatten_file(Head(walk), dir, read_entries(dir[Head(walk)]), st))

\* The lines Unpacker.flatten writes to the map file.
map_lines(map_data) ==
    LET names == sorted(DOMAIN map_data)
    IN  File([i \in 1..Len(names) |->
                names[i] \o <<":">> \o replace(map_data[names[i]], os_sep, "/")])

\* Unpacker.read_map_file
RECURSIVE read_lines(_, _)
read_lines(lines, map_data) ==
    IF lines = <<>> THEN map_data
    ELSE LET line == strip(Head(lines))
             i == find(line, ":")
         IN  IF line = <<>> \/ i = 0
             THEN read_lines(Tail(lines), map_data)
             ELSE read_lines(Tail(lines),
                      dict_set(map_data, strip(SubSeq(line, 1, i - 1)),
                               strip(SubSeq(line, i + 1, Len(line)))))

read_map_file(file) ==
    IF ~file.exists THEN [ok |-> FALSE, map_data |-> EmptyDict]
    ELSE [ok |-> TRUE, map_data |-> read_lines(file.content, EmptyDict)]

\* No flatten has returned True on this Unpacker.
NoFlatten == [ret |-> FALSE, warnings |-> <<>>, xml_files_found |-> 0]

\* Unpacker.unpack: extractall over the <stem>_extracted directory.
Unpack ==
    /\ pc = "new"
    /\ extracted' = [p \in DOMAIN extracted \cup DOMAIN in_zip |->
                        IF p \in DOMAIN in_zip THEN in_zip[p] ELSE extracted[p]]
    /\ extract_dir' = "set"
    /\ pc' = "unpacked"
    /\ UNCHANGED <<in_zip, out_xml, map_file, in_xml, translated_temp, u_map_data,
                   fl, target_lang_suffix, p_map_data, translated_entries, gen,
                   fb, lg, moreVars>>

\* Unpacker.flatten, on any order of the directory walk.
Flatten ==
    /\ pc \in {"new", "unpacked", "flat"}
    /\ IF extract_dir = "None"
       THEN /\ fl' = NoFlatten
            /\ UNCHANGED <<out_xml, map_file, u_map_data, pc>>
       ELSE \E walk \in Walks(DOMAIN extracted) :
              \E st \in {flatten_walk(walk, extracted,
                            [all_entries |-> EmptyDict, map_data |-> EmptyDict,
                             warnings |-> <<>>, xml_files_found |-> 0])} :
                  /\ u_map_data' = st.map_data
                  /\ out_xml' = write_entries(st.all_entries)
                  /\ map_file' = map_lines(st.map_data)
                  /\ fl' = [ret |-> TRUE, warnings |-> st.warnings,
                            xml_files_found |-> st.xml_files_found]
                  /\ pc' = IF out_xml.exists THEN "reflat" ELSE "flat"
    /\ UNCHANGED <<in_zip, extracted, in_xml, translated_temp, extract_dir,
                   target_lang_suffix, p_map_data, translated_entries, gen, fb, lg, moreVars>>

\* Unpacker.__init__: a fresh Unpacker for the same archive and files.
NewUnpacker ==
    /\ pc = "flat"
    /\ extract_dir' = "None"
    /\ u_map_data' = EmptyDict
    /\ fl' = NoFlatten
    /\ pc' = "new"
    /\ UNCHANGED <<in_zip, extracted, out_xml, map_file, in_xml, translated_temp,
                   target_lang_suffix, p_map_data, translated_entries, gen,
                   fb, lg, moreVars>>

(***************************************************************************)
(* auto_translator.py: Packer                                              *)
(***************************************************************************)
\* A translation of a text, as the translation service may return it.
Tr(text) == <<"T">> \o text

\* The files that may stand at Packer.in_xml once the ledger is flattened:
\* the ledger itself, or a translated ledger that lacks at most one name.
TranslatedLedgers(ledger) ==
    LET e == read_entries(ledger)
    IN  {ledger} \cup
        { write_entries([n \in keep |-> Tr(e[n])])
          : keep \in {S \in SUBSET DOMAIN e : Cardinality(DOMAIN e \ S) <= 1} }

ProvideTranslatedXml ==
    /\ pc \in {"flat", "reflat"}
    /\ in_xml' \in TranslatedLedgers(out_xml)
    /\ pc' = "translated"
    /\ UNCHANGED <<in_zip, extracted, out_xml, map_file, translated_temp,
                   extract_dir, u_map_data, fl, target_lang_suffix, p_map_data,
                   translated_entries, gen, fb, lg, moreVars>>

\* set_target_language with the region code used as it is given.
set_target_language_as_given(lang_code, region_code) ==
    IF region_code # None /\ region_code # <<>>
    THEN lang_code \o <<"-", "r">> \o region_code
    ELSE lang_code

\* Packer.set_target_language
set_target_language(lang_code, region_code) ==
    IF region_code # None /\ region_code # <<>>
    THEN LET region_suffix == <<"r">> \o upper(region_code)
         IN  IF lower(lang_code) = <<"z", "h">>
             THEN lang_code \o <<"-">> \o region_suffix
             ELSE lang_code \o <<"-">> \o region_suffix
    ELSE lang_code

\* The (lang_code, region_code) pairs the pipeline is run with.
PipelineLanguages == { <<<<"f", "r">>, None>>, <<<<"z", "h">>, <<"C", "N">>>> }

SetTargetLanguage ==
    /\ pc = "translated"
    /\ \E a \in PipelineLanguages :
          target_lang_suffix' = set_target_language(a[1], a[2])
    /\ pc' = "ready"
    /\ UNCHANGED <<in_zip, extracted, out_xml, map_file, in_xml, translated_temp,
                   extract_dir, u_map_data, fl, p_map_data, translated_entries,
                   gen, fb, lg, moreVars>>

\* target_file_key with only the innermost directory tested for "values".
target_file_key_last_dir(original_relative_path_str, suffix) ==
    LET parts == path_parts(original_relative_path_str)
        n == Len(parts) - 1
    IN  path_str([i \in 1..Len(parts) |->
                    IF i = n /\ startswith(parts[i], values)
                    THEN values \o <<"-">> \o suffix
                    ELSE parts[i]])

\* target_file_key with the suffix appended to the directory's own name, as
\* fbtranslator.py's modify_folder_name does.
target_file_key_append(original_relative_path_str, suffix) ==
    LET parts == path_parts(original_relative_path_str)
    IN  path_str([i \in 1..Len(parts) |->
                    IF i < Len(parts) /\ startswith(parts[i], values)
                    THEN parts[i] \o <<"-">> \o suffix
                    ELSE parts[i]])

\* Packer.generate: the target file of a map entry, relative to target_dir.
target_file_key(original_relative_path_str, suffix) ==
    LET parts == path_parts(original_relative_path_str)
        original_filename == IF parts = <<>> THEN <<>> ELSE parts[Len(parts)]
        original_parent_dir ==
            IF parts = <<>> THEN <<>> ELSE SubSeq(parts, 1, Len(parts) - 1)
        target_parent_parts ==
            [i \in 1..Len(original_parent_dir) |->
                IF startswith(original_parent_dir[i], values)
                THEN values \o <<"-">> \o suffix
                ELSE original_parent_dir[i]]
    IN  path_str(path_parts(join(target_parent_parts \o <<original_filename>>,
                                 os_sep)))

\* generate_loop with a fresh group for every entry: a later entry of a target
\* file replaces the earlier ones.
RECURSIVE generate_loop_overwrite(_, _, _, _, _)
generate_loop_overwrite(items, map_data, translated, suffix, st) ==
    IF items = <<>> THEN st
    ELSE LET name == Head(items)
             key == target_file_key(map_data[name], suffix)
         IN  IF name \in DOMAIN translated
             THEN generate_loop_overwrite(Tail(items), map_data, translated, suffix,
                    [st EXCEPT !.processed_entries = @ + 1,
                               !.file_to_entries =
                                   dict_set(@, key,
                                            dict_set(EmptyDict, name, translated[name]))])
             ELSE generate_loop_overwrite(Tail(items), map_data, translated, suffix,
                    [st EXCEPT !.missing_translations = @ + 1])

\* generate_loop with an entry without translation written with an empty
\* text and not counted.
RECURSIVE generate_loop_emit_missing(_, _, _, _, _)
generate_loop_emit_missing(items, map_data, translated, suffix, st) ==
    IF items = <<>> THEN st
    ELSE LET name == Head(items)
             key == target_file_key(map_data[name], suffix)
             group == IF key \in DOMAIN st.file_to_entries
                      THEN st.file_to_entries[key] ELSE EmptyDict
             text == IF name \in DOMAIN translated THEN translated[name] ELSE <<>>
         IN  generate_loop_emit_missing(Tail(items), map_data, translated, suffix,
                [st EXCEPT !.processed_entries = @ + 1,
                           !.file_to_entries =
                               dict_set(@, key, dict_set(group, name, text))])

\* Packer.generate, the loop over map_data.items().
RECURSIVE generate_loop(_, _, _, _, _)
generate_loop(items, map_data, translated, suffix, st) ==
    IF items = <<>> THEN st
    ELSE LET name == Head(items)
             key == target_file_key(map_data[name], suffix)
             group == IF key \in DOMAIN st.file_to_entries
                      THEN st.file_to_entries[key] ELSE EmptyDict
         IN  IF name \in DOMAIN translated
             THEN generate_loop(Tail(items), map_data, translated, suffix,
                    [st EXCEPT !.processed_entries = @ + 1,
                               !.file_to_entries =
                                   dict_set(@, key,
                                            dict_set(group, name, translated[name]))])
             ELSE generate_loop(Tail(items), map_data, translated, suffix,
                    [st EXCEPT !.missing_translations = @ + 1])

\* failed: the files named by the "Error writing to file" messages.  This is
\* also what generate leaves when it returns False before its loop.
NoGenerate == [ret |-> FALSE, missing_translations |-> 0, processed_entries |-> 0,
               file_write_errors |-> 0, failed |-> {}]

\* The target files whose write raises when the directory "a" of the output
\* tree cannot be written.
Unwritable(keys) == {k \in keys : startswith(k, <<"a", os_sep>>)}

\* write_files with the first write that raises ending the loop: no file is
\* written once one has failed.
write_files_stop(file_to_entries, bad, dir) ==
    IF bad \cap DOMAIN file_to_entries # {}
    THEN [dir |-> dir, file_write_errors |-> 1]
    ELSE [dir |-> [k \in DOMAIN dir \cup DOMAIN file_to_entries |->
                      IF k \in DOMAIN file_to_entries
                      THEN write_entries(file_to_entries[k]) ELSE dir[k]],
          file_write_errors |-> 0]

\* Packer.generate, the loop that writes the target files into dir: a write
\* that raises is counted and the loop goes on.
write_files(file_to_entries, bad, dir) ==
    LET written == DOMAIN file_to_entries \ bad
    IN  [dir |-> [k \in DOMAIN dir \cup written |->
                     IF k \in written
                     THEN write_entries(file_to_entries[k]) ELSE dir[k]],
         file_write_errors |-> Cardinality(DOMAIN file_to_entries \cap bad)]

\* Packer.generate; bad is the set of target files whose write raises.
Generate ==
    /\ pc = "ready"
    /\ \E m \in {read_map_file(map_file)} :
          IF ~m.ok \/ ~in_xml.exists
          THEN /\ p_map_data' = m.map_data
               /\ gen' = NoGenerate
               /\ UNCHANGED <<translated_entries, translated_temp>>
          ELSE IF DOMAIN m.map_data = {}
          THEN /\ p_map_data' = m.map_data
               /\ translated_entries' = read_entries(in_xml)
               /\ gen' = NoGenerate
               /\ UNCHANGED translated_temp
          ELSE \E t \in {read_entries(in_xml)} :
               \E st \in {generate_loop(sorted(DOMAIN m.map_data), m.map_data, t,
                              target_lang_suffix,
                              [file_to_entries |-> EmptyDict,
                               missing_translations |-> 0,
                               processed_entries |-> 0])} :
               \E bad \in {{}, Unwritable(DOMAIN st.file_to_entries)} :
               \E w \in {write_files(st.file_to_entries, bad, translated_temp)} :
                  /\ p_map_data' = m.map_data
                  /\ translated_entries' = t
                  /\ translated_temp' = w.dir
                  /\ gen' = [ret |-> ~(w.file_write_errors > 0),
                             missing_translations |-> st.missing_translations,
                             processed_entries |-> st.processed_entries,
                             file_write_errors |-> w.file_write_errors,
                             failed |-> bad]
    /\ pc' = "generated"
    /\ UNCHANGED <<in_zip, extracted, out_xml, map_file, in_xml, extract_dir,
                   u_map_data, fl, target_lang_suffix, fb, lg, moreVars>>

zh == <<"z", "h">>

AtInit ==
    /\ in_zip \in Archives
    /\ extracted = EmptyDict
    /\ out_xml = NoFile
    /\ map_file = NoFile
    /\ in_xml = NoFile
    /\ translated_temp = EmptyDict
    /\ extract_dir = "None"
    /\ u_map_data = EmptyDict
    /\ fl = NoFlatten
    /\ target_lang_suffix = zh
    /\ p_map_data = EmptyDict
    /\ translated_entries = EmptyDict
    /\ gen = NoGenerate
    /\ pc = "new"

\* No fbtranslator Packer has been made.
FbIdle == [stage |-> "idle"]
\* No set_target_language call has been made.
LgIdle == [how |-> "none", lang_display |-> "", region_var |-> <<>>,
           lang_code |-> <<>>, region_code |-> None]

\* None of the other components has been started.
CodecIdle == [stage |-> "idle"]
TxIdle == [stage |-> "idle"]
TaskIdle == [stage |-> "idle"]
FuIdle == [stage |-> "idle"]
GuiIdle == [stage |-> "idle"]
OutIdle == [stage |-> "idle"]
AppIdle == [stage |-> "idle"]
MoreIdle ==
    /\ codec = CodecIdle
    /\ tx = TxIdle
    /\ task = TaskIdle
    /\ fu = FuIdle
    /\ gui = GuiIdle
    /\ out_zip = OutIdle
    /\ app = AppIdle

Init == AtInit /\ fb = FbIdle /\ lg = LgIdle /\ MoreIdle

Next ==
    \/ Unpack
    \/ Flatten
    \/ NewUnpacker
    \/ ProvideTranslatedXml
    \/ SetTargetLanguage
    \/ Generate

Spec == Init /\ [][Next]_vars

(***************************************************************************)
(* Packer.generate on a map file and a translated ledger given by the      *)
(* user: one provenance record, any depth of directories.                  *)
(***************************************************************************)
MaxDepth == 2

fr == <<"f", "r">>
zh_rCN == <<"z", "h", "-", "r", "C", "N">>
valuesx == values \o <<"x">>
val == <<"v", "a", "l">>
values_xml == values \o <<".", "x", "m", "l">>

DirNames == {res, layout, values, values_en, valuesx, val}
FileNames == {s_xml, x_xml, strings_xml, values_xml}

RECURSIVE DirSeqs(_)
DirSeqs(n) ==
    IF n = 0 THEN {<<>>}
    ELSE DirSeqs(n - 1) \cup
         { <<d>> \o ds : d \in DirNames, ds \in {x \in DirSeqs(n - 1) : Len(x) = n - 1} }

ProvenancePaths == { path_str(ds \o <<f>>) : ds \in DirSeqs(MaxDepth), f \in FileNames }

PackerInit ==
    /\ in_zip = EmptyDict
    /\ extracted = EmptyDict
    /\ out_xml = NoFile
    /\ map_file \in { File(<<K1 \o <<":">> \o path>>) : path \in ProvenancePaths }
    /\ in_xml \in { write_entries([n \in S |-> Tr(Hi)]) : S \in {{K1}, {K2}} }
    /\ translated_temp = EmptyDict
    /\ extract_dir = "None"
    /\ u_map_data = EmptyDict
    /\ fl = NoFlatten
    /\ target_lang_suffix = zh
    /\ p_map_data = EmptyDict
    /\ translated_entries = EmptyDict
    /\ gen = NoGenerate
    /\ pc = "translated"
    /\ fb = FbIdle
    /\ lg = LgIdle
    /\ MoreIdle

PackerNext ==
    \/ SetTargetLanguage
    \/ Generate

SpecPacker == PackerInit /\ [][PackerNext]_vars

(***************************************************************************)
(* Properties of auto_translator.py                                        *)
(***************************************************************************)
\* The entries of the extracted file at path p.
Entries(p) == read_entries(extracted[p])

\* The file at key of dir decodes to an entry (n, text).
HoldsEntry(dir, key, n, text) ==
    /\ key \in DOMAIN dir
    /\ n \in DOMAIN read_entries(dir[key])
    /\ read_entries(dir[key])[n] = text

\* The names of the <string> elements of a file.
ElementNames(file) == { file.content[i].name : i \in 1..Len(file.content) }

\* The path with every directory segment that starts with "values" replaced
\* by the locale directory of the tag.
RewrittenPath(path, tag) ==
    LET parts == split(path, "/")
    IN  join([i \in 1..Len(parts) |->
                 IF i < Len(parts) /\ startswith(parts[i], values)
                 THEN values \o <<"-">> \o tag
                 ELSE parts[i]], "/")

DiffersOnlyInValues(path, q) ==
    LET a == split(path, "/")
        b == split(q, "/")
    IN  /\ Len(a) = Len(b)
        /\ a[Len(a)] = b[Len(b)]
        /\ \A i \in 1..Len(a) : a[i] # b[i] => startswith(a[i], values)

UniqueNames ==
    \A p1, p2 \in DOMAIN extracted :
        p1 # p2 => DOMAIN Entries(p1) \cap DOMAIN Entries(p2) = {}

NoDifferentTexts ==
    \A p1, p2 \in DOMAIN extracted :
        \A n \in DOMAIN Entries(p1) \cap DOMAIN Entries(p2) :
            Entries(p1)[n] = Entries(p2)[n]

\* C1: after flatten and generate with the flattened ledger used unchanged as
\* the translated ledger, on a tree whose names are unique, every source entry
\* (name, text) at path p is an entry (name, text) of the file at the rewritten
\* path of p, which differs from p only in directory segments that begin with
\* "values".
C1_RoundTrip ==
    (pc = "generated" /\ gen.ret /\ fl.ret /\ in_xml = out_xml /\ UniqueNames) =>
        \A p \in DOMAIN extracted :
            \A n \in DOMAIN Entries(p) :
                LET q == RewrittenPath(path_str(p), target_lang_suffix)
                IN  /\ DiffersOnlyInValues(path_str(p), q)
                    /\ HoldsEntry(translated_temp, q, n, Entries(p)[n])

\* A flatten that runs when the ledger and the map of an earlier flatten of the
\* same tree are on disk.
ReFlatten ==
    /\ pc \in {"unpacked", "flat"}
    /\ out_xml.exists
    /\ map_file.exists
    /\ pc' = "reflat"

\* C2: a second flatten of the same tree, on the same or a fresh Unpacker and
\* on any order of the walk, writes the same ledger and the same map as the
\* first, provided no name occurs in two files with different text.
C2_Idempotence ==
    [][(ReFlatten /\ NoDifferentTexts) =>
          (out_xml' = out_xml /\ map_file' = map_file)]_vars

\* C2, as the code has it: the ledger is the same provided no name occurs in
\* two files with different text, and the map is the same provided no name
\* occurs in two files at all.
C2_IdempotenceUniqueNames ==
    [][(ReFlatten /\ NoDifferentTexts) =>
          /\ out_xml' = out_xml
          /\ UniqueNames => map_file' = map_file]_vars

C2_Witness ==
    /\ pc = "reflat"
    /\ UniqueNames
    /\ Cardinality(DOMAIN extracted) >= 2
    /\ Cardinality({p \in DOMAIN extracted : DOMAIN Entries(p) # {}}) >= 1
    /\ DOMAIN u_map_data # {}

\* The provenance entries Packer.generate found a translation for.
Translated == DOMAIN p_map_data \cap DOMAIN translated_entries

\* C4: when provenance entries with different names rewrite to the same target
\* path, generate writes one file at that path holding every one of those
\* names that has a translation, unless the write of that file raised.
C4_MergeSameTarget ==
    pc = "generated" =>
        \A n1, n2 \in Translated :
            LET key == RewrittenPath(p_map_data[n1], target_lang_suffix)
            IN  (/\ n1 # n2
                 /\ key = RewrittenPath(p_map_data[n2], target_lang_suffix)
                 /\ key \notin gen.failed)
                => /\ HoldsEntry(translated_temp, key, n1, translated_entries[n1])
                   /\ HoldsEntry(translated_temp, key, n2, translated_entries[n2])

C4_Witness ==
    /\ pc = "generated"
    /\ {K1, K2} \subseteq Translated
    /\ p_map_data[K1] # p_map_data[K2]
    /\ \E key \in DOMAIN translated_temp :
          /\ key = RewrittenPath(p_map_data[K1], target_lang_suffix)
          /\ key = RewrittenPath(p_map_data[K2], target_lang_suffix)
          /\ ElementNames(translated_temp[key]) = {K1, K2}

\* The paths of the scanned files that carry the name n.
Carriers(n) == { p \in DOMAIN extracted : n \in DOMAIN Entries(p) }

\* The name n is carried by exactly two scanned files, with different text.
TwoTexts(n) ==
    /\ Cardinality(Carriers(n)) = 2
    /\ \A p1, p2 \in Carriers(n) : p1 # p2 => Entries(p1)[n] # Entries(p2)[n]

\* The conflicts flatten reported for the name n.
Conflicts(n) == { i \in DOMAIN fl.warnings : fl.warnings[i].name = n }

\* C5: when exactly two scanned files carry a name with different text,
\* flatten reports exactly one conflict for the name and the ledger holds
\* exactly one entry for it, with the text of the file scanned last.
C5_DuplicateDetection ==
    fl.ret =>
        \A n \in Names :
            TwoTexts(n) =>
                /\ Cardinality(Conflicts(n)) = 1
                /\ Cardinality({i \in DOMAIN out_xml.content :
                                   out_xml.content[i].name = n}) = 1
                /\ \A i \in Conflicts(n) :
                      \E first, last \in Carriers(n) :
                          /\ first # last
                          /\ fl.warnings[i].original = path_str(first)
                          /\ fl.warnings[i].path = path_str(last)
                          /\ u_map_data[n] = path_str(last)
                          /\ \A j \in DOMAIN out_xml.content :
                                out_xml.content[j].name = n =>
                                    out_xml.content[j].raw = Entries(last)[n]

C5_Witness ==
    /\ fl.ret
    /\ TwoTexts(K1)
    /\ Cardinality(Conflicts(K1)) = 1

\* The names of the provenance map that the translated ledger lacks.
Missing == DOMAIN p_map_data \ DOMAIN translated_entries

\* C6: when the translated ledger lacks a name of the provenance map, generate
\* still emits an entry for the name, with the original text, in its target
\* file, and counts one missing translation for it.
C6_MissingFallback ==
    (pc = "generated" /\ gen.ret) =>
        /\ gen.missing_translations = Cardinality(Missing)
        /\ \A n \in Missing :
              n \in DOMAIN read_entries(out_xml) =>
                  HoldsEntry(translated_temp,
                             RewrittenPath(p_map_data[n], target_lang_suffix),
                             n, read_entries(out_xml)[n])

\* C6, as the code has it: generate emits no entry for a name the translated
\* ledger lacks, counts one missing translation for each such name, and still
\* writes the entries that have a translation.
C6_MissingSkipped ==
    pc = "generated" =>
        /\ gen.missing_translations = Cardinality(Missing)
        /\ gen.processed_entries = Cardinality(Translated)
        /\ \A n \in Missing :
              \A key \in DOMAIN translated_temp :
                  n \notin ElementNames(translated_temp[key])
        /\ \A n \in Translated :
              LET key == RewrittenPath(p_map_data[n], target_lang_suffix)
              IN  key \notin gen.failed =>
                      HoldsEntry(translated_temp, key, n, translated_entries[n])

C6_Witness ==
    /\ pc = "generated"
    /\ gen.ret
    /\ Missing # {}
    /\ Translated # {}
    /\ gen.missing_translations = 1
    /\ translated_temp # EmptyDict

\* C8: the target path generate computes is the provenance path with each
\* directory segment that starts with "values" replaced by values-<tag> and
\* every other segment and the file name unchanged, and the entry is written
\* there; res/values/strings.xml with tag fr gives res/values-fr/strings.xml
\* and res/layout/x.xml is left unchanged.
C8_PathRewrite ==
    pc = "generated" =>
        \A n \in Translated :
            LET path == p_map_data[n]
                key == RewrittenPath(path, target_lang_suffix)
            IN  /\ key \notin gen.failed =>
                       /\ HoldsEntry(translated_temp, key, n, translated_entries[n])
                       /\ \A other \in DOMAIN translated_temp \ {key} :
                             n \notin ElementNames(translated_temp[other])
                /\ DiffersOnlyInValues(path, key)
                /\ (path = path_str(<<res, values, strings_xml>>)
                    /\ target_lang_suffix = fr)
                   => HoldsEntry(translated_temp,
                                 path_str(<<res, values \o <<"-", "f", "r">>,
                                            strings_xml>>),
                                 n, translated_entries[n])
                /\ path = path_str(<<res, layout, x_xml>>)
                   => HoldsEntry(translated_temp, path, n, translated_entries[n])

\* A path with a "values" directory that is not the innermost one has been
\* rewritten and written.
C8_Witness ==
    /\ pc = "generated"
    /\ K1 \in Translated
    /\ p_map_data[K1] = path_str(<<values_en, layout, values_xml>>)
    /\ target_lang_suffix = fr
    /\ DOMAIN translated_temp
          = {path_str(<<values \o <<"-", "f", "r">>, layout, values_xml>>)}

\* The tree a/values/s.xml{k1}, b/values-en/s2.xml{k2}.
ScenarioTree ==
    /\ DOMAIN extracted = { << <<"a">>, values, s_xml >>, << <<"b">>, values_en, s2_xml >> }
    /\ DOMAIN Entries(<< <<"a">>, values, s_xml >>) = {K1}
    /\ DOMAIN Entries(<< <<"b">>, values_en, s2_xml >>) = {K2}

ScenarioFlattened ==
    /\ ElementNames(out_xml) = {K1, K2}
    /\ DOMAIN u_map_data = {K1, K2}
    /\ u_map_data[K1] = path_str(<< <<"a">>, values, s_xml >>)
    /\ u_map_data[K2] = path_str(<< <<"b">>, values_en, s2_xml >>)

ScenarioGenerated ==
    /\ pc = "generated"
    /\ gen.ret
    /\ target_lang_suffix = zh_rCN
    /\ Translated = {K1, K2}

\* C9: for the tree a/values/s.xml{k1}, b/values-en/s2.xml{k2}, flatten gives
\* the ledger {k1, k2} and the provenance {k1: a/values/s.xml,
\* k2: b/values-en/s2.xml}, and generate with tag zh-rCN writes k1 to
\* a/values-zh-rCN/s.xml and k2 to b/values-en-zh-rCN/s2.xml.
C9_Scenario ==
    ScenarioTree =>
        /\ fl.ret => ScenarioFlattened
        /\ (fl.ret /\ ScenarioGenerated) =>
              /\ HoldsEntry(translated_temp,
                            path_str(<< <<"a">>, values \o <<"-">> \o zh_rCN, s_xml >>),
                            K1, translated_entries[K1])
              /\ HoldsEntry(translated_temp,
                            path_str(<< <<"b">>, values_en \o <<"-">> \o zh_rCN, s2_xml >>),
                            K2, translated_entries[K2])

\* C9, as the code has it: k2 is written to b/values-zh-rCN/s2.xml; the
\* qualifier of the origin's locale directory is dropped.
C9_ScenarioReplaced ==
    ScenarioTree =>
        /\ fl.ret => ScenarioFlattened
        /\ (fl.ret /\ ScenarioGenerated) =>
              /\ HoldsEntry(translated_temp,
                            path_str(<< <<"a">>, values \o <<"-">> \o zh_rCN, s_xml >>),
                            K1, translated_entries[K1])
              /\ HoldsEntry(translated_temp,
                            path_str(<< <<"b">>, values \o <<"-">> \o zh_rCN, s2_xml >>),
                            K2, translated_entries[K2])
              /\ DOMAIN translated_temp
                    = { path_str(<< <<"a">>, values \o <<"-">> \o zh_rCN, s_xml >>),
                        path_str(<< <<"b">>, values \o <<"-">> \o zh_rCN, s2_xml >>) }

C9_Witness == ScenarioTree /\ fl.ret /\ ScenarioFlattened /\ ScenarioGenerated

\* The target files of the entries that have a translation.
ExpectedTargets ==
    { RewrittenPath(p_map_data[n], target_lang_suffix) : n \in Translated }

\* generate has read a map file with records and a translated ledger.
Loaded ==
    /\ pc = "generated"
    /\ map_file.exists
    /\ in_xml.exists
    /\ DOMAIN p_map_data # {}

languages ==
    [d \in {"Chinese (Simplified)", "Chinese (Traditional)", "English", "Spanish",
            "French", "German", "Japanese", "Korean", "Russian", "Portuguese",
            "Italian", "Arabic", "Hindi"} |->
        CASE d = "Chinese (Simplified)" -> <<"z", "h", "-", "C", "N">>
          [] d = "Chinese (Traditional)" -> <<"z", "h", "-", "T", "W">>
          [] d = "English" -> <<"e", "n">>
          [] d = "Spanish" -> <<"e", "s">>
          [] d = "French" -> <<"f", "r">>
          [] d = "German" -> <<"d", "e">>
          [] d = "Japanese" -> <<"j", "a">>
          [] d = "Korean" -> <<"k", "o">>
          [] d = "Russian" -> <<"r", "u">>
          [] d = "Portuguese" -> <<"p", "t">>
          [] d = "Italian" -> <<"i", "t">>
          [] d = "Arabic" -> <<"a", "r">>
          [] d = "Hindi" -> <<"h", "i">>]

\* The base codes and region codes a caller may pass.
BaseCodes == { split(languages[d], "-")[1] : d \in DOMAIN languages } \cup {<<"Z", "H">>}
RegionCodes == { None, <<>>, <<"C", "N">>, <<"c", "n">>, <<"t", "W">>, <<"B", "R">>,
                 <<"b", "r">> }
\* What may stand in the region field of the GUI.
RegionFields == { <<>>, <<" ">>, <<"c", "n">>, <<" ", "t", "w", " ">>, <<"B", "R">> }

\* The idle values of the pipeline's variables: nothing on disk, a new Packer.
AtIdle ==
    /\ in_zip = EmptyDict
    /\ extracted = EmptyDict
    /\ out_xml = NoFile
    /\ map_file = NoFile
    /\ in_xml = NoFile
    /\ translated_temp = EmptyDict
    /\ extract_dir = "None"
    /\ u_map_data = EmptyDict
    /\ fl = NoFlatten
    /\ target_lang_suffix = zh
    /\ p_map_data = EmptyDict
    /\ translated_entries = EmptyDict
    /\ gen = NoGenerate
    /\ pc = "idle"

\* Packer.set_target_language(lang_code, region_code), called directly.
CallSetTargetLanguage ==
    /\ pc = "idle"
    /\ \E lang_code \in BaseCodes, region_code \in RegionCodes :
          /\ target_lang_suffix' = set_target_language(lang_code, region_code)
          /\ lg' = [how |-> "call", lang_display |-> "", region_var |-> <<>>,
                    lang_code |-> lang_code, region_code |-> region_code]
    /\ UNCHANGED <<in_zip, extracted, out_xml, map_file, in_xml, translated_temp,
                   extract_dir, u_map_data, fl, p_map_data, translated_entries,
                   gen, pc, fb, moreVars>>

\* App.run_pack_thread and the _reconstruct_and_pack task it starts, with
\* the three path fields filled in.  The map file named there does not
\* exist here, so the task's Packer.generate returns False at once.
RunPackThread ==
    /\ pc = "idle"
    /\ ~map_file.exists
    /\ \E lang_display \in DOMAIN languages, region_var \in RegionFields :
          LET target_lang_code_full == languages[lang_display]
              region == upper(strip(region_var))
              target_lang_code_base == split(target_lang_code_full, "-")[1]
              target_region_code ==
                  IF region # <<>> THEN region
                  ELSE IF "-" \in Range(target_lang_code_full)
                       THEN split(target_lang_code_full, "-")[2]
                       ELSE None
          IN  /\ target_lang_suffix' =
                    set_target_language(target_lang_code_base, target_region_code)
              /\ lg' = [how |-> "gui", lang_display |-> lang_display,
                        region_var |-> region_var,
                        lang_code |-> target_lang_code_base,
                        region_code |-> target_region_code]
    /\ p_map_data' = EmptyDict
    /\ gen' = NoGenerate
    /\ UNCHANGED <<in_zip, extracted, out_xml, map_file, in_xml, translated_temp,
                   extract_dir, u_map_data, fl, translated_entries, pc, fb, moreVars>>

LangInit == AtIdle /\ fb = FbIdle /\ lg = LgIdle /\ MoreIdle

LangNext ==
    \/ CallSetTargetLanguage
    \/ RunPackThread

SpecLang == LangInit /\ [][LangNext]_vars

\* C10: set_target_language(base, region) sets the tag to base + "-r" + the
\* upper-cased region whenever a non-empty region is given, and to base alone
\* when no region is given; from the GUI, the language code zh-CN and an empty
\* region field give the tag zh-rCN.
C10_RegionComposition ==
    /\ (lg.how # "none" /\ lg.region_code # None /\ lg.region_code # <<>>)
          => /\ target_lang_suffix
                   = lg.lang_code \o <<"-", "r">> \o upper(lg.region_code)
             /\ \A i \in 1..Len(lg.region_code) :
                   target_lang_suffix[Len(lg.lang_code) + 2 + i]
                       \notin Range(LowerCase)
    /\ (lg.how # "none" /\ lg.region_code = None)
          => target_lang_suffix = lg.lang_code
    /\ (lg.how = "gui" /\ languages[lg.lang_display] = <<"z", "h", "-", "C", "N">>
        /\ lg.region_var = <<>>)
          => target_lang_suffix = zh_rCN

C10_Witness ==
    /\ lg.how = "gui"
    /\ lg.lang_display = "Chinese (Simplified)"
    /\ lg.region_var = <<>>
    /\ target_lang_suffix = zh_rCN

(***************************************************************************)
(* fbtranslator.py: Packer                                                 *)
(***************************************************************************)
\* An XML file is the sequence of the <string> elements under its root, each
\* [name, text, kids]: kids is the number of child elements, which is what
\* the truth value of an Element tests.

\* str.split(sep) for a separator of several characters
RECURSIVE split_sep(_, _)
split_sep(s, sep) ==
    LET hits == {i \in 1..Len(s) : at(s, i, sep)}
    IN  IF hits = {} THEN <<s>>
        ELSE LET i == CHOOSE h \in hits : \A g \in hits : h <= g
             IN  <<SubSeq(s, 1, i - 1)>>
                     \o split_sep(SubSeq(s, i + Len(sep), Len(s)), sep)

\* Path(name).stem
stem(name) ==
    LET dots == {i \in 2..Len(name) : name[i] = "."}
    IN  IF dots = {} THEN name
        ELSE SubSeq(name, 1, (CHOOSE d \in dots : \A e \in dots : e <= d) - 1)

\* Packer.entries is a dict in insertion order: keys is that order, paths
\* gives each key its list of Path objects (tuples of parts).
NoEntries == [keys |-> <<>>, paths |-> EmptyDict]

\* Packer.load_map, the loop over the lines: a line that does not split in
\* two at "::" raises, and the records read before it stay in self.entries.
RECURSIVE load_lines(_, _)
load_lines(lines, entries) ==
    IF lines = <<>> THEN [ok |-> TRUE, entries |-> entries]
    ELSE LET kv == split_sep(strip(Head(lines)), <<":", ":">>)
         IN  IF Len(kv) # 2 THEN [ok |-> FALSE, entries |-> entries]
             ELSE LET key == kv[1]
                      known == key \in DOMAIN entries.paths
                  IN  load_lines(Tail(lines),
                         [keys |-> IF known THEN entries.keys
                                   ELSE Append(entries.keys, key),
                          paths |-> dict_set(entries.paths, key,
                                       Append(IF known THEN entries.paths[key]
                                              ELSE <<>>,
                                              path_parts(kv[2])))])

\* Packer.load_map
load_map(file, entries) ==
    IF ~file.exists THEN [ok |-> FALSE, entries |-> entries]
    ELSE load_lines(file.content, entries)

\* Packer.modify_folder_name: parts[-2] raises IndexError for a path of fewer
\* than two parts.
modify_folder_name(path, lang_suffix) ==
    IF Len(path) < 2 THEN [ok |-> FALSE, path |-> path]
    ELSE IF startswith(path[Len(path) - 1], values)
    THEN [ok |-> TRUE,
          path |-> [path EXCEPT ![Len(path) - 1] = @ \o <<"-">> \o lang_suffix]]
    ELSE [ok |-> TRUE, path |-> path]

\* Element.find(".//string[@name='key']"): the index of the first element
\* with the name, 0 for None.
find_string(root, key) ==
    LET hits == {i \in 1..Len(root) : root[i].name = key}
    IN  IF hits = {} THEN 0 ELSE CHOOSE h \in hits : \A g \in hits : h <= g

\* The (key, rel_path) pairs in the order of the two loops of generate.
RECURSIVE pairs_of(_, _)
pairs_of(keys, paths) ==
    IF keys = <<>> THEN <<>>
    ELSE [i \in 1..Len(paths[Head(keys)]) |-> <<Head(keys), paths[Head(keys)][i]>>]
             \o pairs_of(Tail(keys), paths)

\* Packer.generate, the body of the loops: the first exception ends generate;
\* the files written before it stay.
RECURSIVE generate_pairs(_, _, _, _)
generate_pairs(pairs, root, lang_suffix, out_dir) ==
    IF pairs = <<>> THEN [ok |-> TRUE, out_dir |-> out_dir]
    ELSE LET key == Head(pairs)[1]
             modified_path == modify_folder_name(Head(pairs)[2], lang_suffix)
         IN  IF ~modified_path.ok THEN [ok |-> FALSE, out_dir |-> out_dir]
             ELSE LET xml_path == path_str(modified_path.path)
                      xml_root == IF xml_path \in DOMAIN out_dir
                                  THEN out_dir[xml_path] ELSE <<>>
                      elem == find_string(xml_root, key)
                      not_elem == elem = 0 \/ xml_root[elem].kids = 0
                      translated == find_string(root, key)
                  IN  IF translated = 0 THEN [ok |-> FALSE, out_dir |-> out_dir]
                      ELSE generate_pairs(Tail(pairs), root, lang_suffix,
                              dict_set(out_dir, xml_path,
                                  IF not_elem
                                  THEN Append(xml_root,
                                              [name |-> key,
                                               text |-> root[translated].text,
                                               kids |-> 0])
                                  ELSE [xml_root EXCEPT
                                           ![elem].text = root[translated].text]))

\* Inputs of the fbtranslator Packer.
fr_xml == fr \o <<".", "x", "m", "l">>
zh_rTW_xml == <<"z", "h", "-", "r", "T", "W", ".", "x", "m", "l">>
Old == <<"O", "l", "d">>

FbPaths == { path_str(<<values, s_xml>>), path_str(<<values_en, s_xml>>),
             path_str(<<s_xml>>), path_str(<<layout, x_xml>>) }
\* The lines of a mapping file: records key::path, and a line without "::".
FbLines ==
    { K1 \o <<":", ":">> \o path : path \in FbPaths }
        \cup { K2 \o <<":", ":">> \o path
               : path \in {path_str(<<values, s_xml>>), path_str(<<values_en, s_xml>>)} }
        \cup { K1 }
RECURSIVE FbMaps(_)
FbMaps(n) ==
    IF n = 0 THEN {<<>>}
    ELSE FbMaps(n - 1) \cup
         { Append(m, l) : m \in {x \in FbMaps(n - 1) : Len(x) = n - 1}, l \in FbLines }

\* The translated XML files: both keys, or the first key only, or no file.
FbTranslated ==
    { File(<<[name |-> K1, text |-> Tr(Hi), kids |-> 0],
             [name |-> K2, text |-> Tr(Bye), kids |-> 0]>>),
      File(<<[name |-> K1, text |-> Tr(Hi), kids |-> 0]>>),
      NoFile }

\* The output directory before the first generate: empty, or holding a
\* values-fr/s.xml whose element of the first key has a child element.
FbOutDirs ==
    { EmptyDict,
      [k \in {path_str(<<values \o <<"-">> \o fr, s_xml>>)} |->
          <<[name |-> K1, text |-> Old, kids |-> 1]>>] }

FbInit ==
    /\ AtIdle
    /\ lg = LgIdle
    /\ MoreIdle
    /\ \E name \in {fr_xml, zh_rTW_xml},
          content \in FbTranslated,
          lines \in FbMaps(MaxMapLines) \ {<<>>},
          dir \in FbOutDirs :
          /\ name = zh_rTW_xml => dir = EmptyDict
          /\ fb = [stage |-> "new",
                   map_file |-> File(lines),
                   in_xml |-> content,
                   lang_suffix |-> stem(name),
                   entries |-> NoEntries,
                   out_dir |-> dir,
                   ret |-> FALSE,
                   runs |-> 0]

\* Packer.generate
FbGenerate ==
    /\ fb.stage \in {"new", "generated"}
    /\ fb.runs < MaxRuns
    /\ \E l \in {load_map(fb.map_file, fb.entries)} :
          IF ~l.ok \/ ~fb.in_xml.exists
          THEN fb' = [fb EXCEPT !.entries = l.entries, !.ret = FALSE,
                                !.stage = "generated", !.runs = @ + 1]
          ELSE \E g \in {generate_pairs(pairs_of(l.entries.keys, l.entries.paths),
                                        fb.in_xml.content, fb.lang_suffix,
                                        fb.out_dir)} :
                  fb' = [fb EXCEPT !.entries = l.entries, !.out_dir = g.out_dir,
                                   !.ret = g.ok, !.stage = "generated",
                                   !.runs = @ + 1]
    /\ UNCHANGED <<atVars, lg, moreVars>>

\* Packer.__init__: a new Packer for the same files and output directory.
FbNewPacker ==
    /\ fb.stage = "generated"
    /\ fb.entries # NoEntries
    /\ fb' = [fb EXCEPT !.entries = NoEntries, !.ret = FALSE, !.stage = "new"]
    /\ UNCHANGED <<atVars, lg, moreVars>>

FbNext ==
    \/ FbGenerate
    \/ FbNewPacker

SpecFB == FbInit /\ [][FbNext]_vars

(***************************************************************************)
(* Properties of fbtranslator.py                                           *)
(***************************************************************************)
\* The elements with the name n in an XML file of the output directory.
FbNamed(xml_path, n) ==
    { i \in 1..Len(fb.out_dir[xml_path]) : fb.out_dir[xml_path][i].name = n }

\* C3: after generate, every name appears in at most one <string> element of
\* each generated target file, also when the map holds the same (name, path)
\* record more than once or the target file already holds the name.
C3_KeyUniqueness ==
    fb.stage = "generated" =>
        \A xml_path \in DOMAIN fb.out_dir :
            \A n \in Names : Cardinality(FbNamed(xml_path, n)) <= 1

\* The records of the mapping file, when every line is a record.
FbRecords ==
    { split_sep(strip(fb.map_file.content[i]), <<":", ":">>)
      : i \in 1..Len(fb.map_file.content) }
FbTranslatedKeys ==
    { fb.in_xml.content[i].name : i \in 1..Len(fb.in_xml.content) }

\* The first generate ran on a mapping file of records whose paths have a
\* directory and on a translated XML that lacks a mapped key.
FbMissingKey ==
    /\ fb.stage = "generated"
    /\ fb.runs = 1
    /\ fb.in_xml.exists
    /\ \A r \in FbRecords : Len(r) = 2 /\ Len(path_parts(r[2])) >= 2
    /\ \E r \in FbRecords : r[1] \notin FbTranslatedKeys

\* C7: when the mapping file names a key that the translated XML does not
\* contain, generate skips that key, still writes every other mapped key to
\* its target file, and returns True.
C7_MissingNotFatal ==
    FbMissingKey =>
        /\ fb.ret
        /\ \A r \in FbRecords :
              r[1] \in FbTranslatedKeys =>
                  LET xml_path ==
                          path_str(modify_folder_name(path_parts(r[2]),
                                                      fb.lang_suffix).path)
                  IN  /\ xml_path \in DOMAIN fb.out_dir
                      /\ FbNamed(xml_path, r[1]) # {}

(***************************************************************************)
(* auto_translator.py: XMLHandler on its own.  A mapping is written and    *)
(* read back, or a given file is read.                                     *)
(***************************************************************************)
Lt == <<"<">>
Gt == <<">">>
PaddedHi == <<" ">> \o Hi
\* The texts a mapping may give a name.
CodecTexts == { <<>>, Hi, AmpText, Lt, Gt, PaddedHi }
CodecMappings ==
    UNION { [S -> CodecTexts] : S \in SUBSET Names }

\* The contents a <string> element of a file may have: plain text, an entity,
\* text around and inside a child element, padding, a bare "&".
Marked == <<"a", "<", "b", ">", "c", "<", "/", "b", ">", "d">>
MarkedOnly == <<"<", "b", ">", "x", "<", "/", "b", ">">>
PaddedMarked == <<" ", "x", "<", "i", ">", "y", "<", "/", "i", ">", " ">>
CodecRaws == { <<>>, Hi, AmpRaw, Marked, MarkedOnly, PaddedMarked, AmpText }
CodecFiles ==
    { NoFile }
        \cup { File(<<[name |-> K1, raw |-> r]>>) : r \in CodecRaws }
        \cup { File(<<[name |-> K1, raw |-> r1], [name |-> n, raw |-> r2]>>)
               : r1 \in CodecRaws, r2 \in CodecRaws, n \in Names }

CodecInit ==
    /\ AtIdle
    /\ fb = FbIdle
    /\ lg = LgIdle
    /\ out_zip = OutIdle
    /\ app = AppIdle
    /\ tx = TxIdle
    /\ task = TaskIdle
    /\ fu = FuIdle
    /\ gui = GuiIdle
    /\ \/ \E E \in CodecMappings :
             codec = [stage |-> "given", op |-> "write_read", entries |-> E,
                      file |-> NoFile, result |-> EmptyDict]
       \/ \E f \in CodecFiles :
             codec = [stage |-> "given", op |-> "read", entries |-> EmptyDict,
                      file |-> f, result |-> EmptyDict]

\* XMLHandler.write_entries(xml_file, E), then XMLHandler.read_entries(xml_file)
WriteThenRead ==
    /\ codec.stage = "given"
    /\ codec.op = "write_read"
    /\ \E f \in {write_entries(codec.entries)} :
          codec' = [codec EXCEPT !.stage = "done", !.file = f,
                                 !.result = read_entries(f)]
    /\ UNCHANGED <<atVars, fb, lg, tx, task, fu, gui, out_zip, app>>

\* XMLHandler.read_entries(xml_file)
ReadEntries ==
    /\ codec.stage = "given"
    /\ codec.op = "read"
    /\ codec' = [codec EXCEPT !.stage = "done", !.result = read_entries(codec.file)]
    /\ UNCHANGED <<atVars, fb, lg, tx, task, fu, gui, out_zip, app>>

CodecNext ==
    \/ WriteThenRead
    \/ ReadEntries

SpecCodec == CodecInit /\ [][CodecNext]_vars

\* C14: for every mapping E of names to texts, texts with <, > and & included,
\* read_entries of the file written by write_entries(E) returns exactly E.
C14_CodecRoundTrip ==
    (codec.stage = "done" /\ codec.op = "write_read") =>
        /\ DOMAIN codec.result = DOMAIN codec.entries
        /\ \A n \in DOMAIN codec.entries : codec.result[n] = codec.entries[n]

\* The elements of the file read that hold a child element, in a file that
\* parses and has no name twice.
WithChild ==
    { i \in 1..Len(codec.file.content) :
        /\ "<" \in Range(codec.file.content[i].raw)
        /\ \A j \in 1..Len(codec.file.content) :
              /\ element_text(codec.file.content[j].raw).ok
              /\ j # i => codec.file.content[j].name # codec.file.content[i].name }

\* C15: for a <string> element whose content mixes text and child elements,
\* read_entries yields the full inner content verbatim, child tags and the
\* text inside them included, with only the surrounding whitespace trimmed.
C15_MarkupPreserved ==
    (codec.stage = "done" /\ codec.op = "read" /\ codec.file.exists) =>
        \A i \in WithChild :
            /\ codec.file.content[i].name \in DOMAIN codec.result
            /\ codec.result[codec.file.content[i].name]
                   = strip(codec.file.content[i].raw)

(***************************************************************************)
(* auto_translator.py: Unpacker on an archive with files that do not parse *)
(***************************************************************************)
\* Files the XML parser rejects: a bare "&" in the only element, or in one
\* element of two.
BrokenFiles ==
    { File(<<[name |-> K1, raw |-> AmpText]>>),
      File(<<[name |-> K1, raw |-> Hi], [name |-> K2, raw |-> AmpText]>>) }

\* Archives with at least one file that does not parse.
BrokenArchives ==
    UNION { { a \in [D -> UNION {FilesOver(S) : S \in SUBSET Names \ {{}}}
                              \cup BrokenFiles] :
                \E p \in D : a[p] \in BrokenFiles }
            : D \in {S \in SUBSET Paths : S # {} /\ Cardinality(S) <= MaxFiles} }

DecodeInit ==
    /\ in_zip \in BrokenArchives
    /\ extracted = EmptyDict
    /\ out_xml = NoFile
    /\ map_file = NoFile
    /\ in_xml = NoFile
    /\ translated_temp = EmptyDict
    /\ extract_dir = "None"
    /\ u_map_data = EmptyDict
    /\ fl = NoFlatten
    /\ target_lang_suffix = zh
    /\ p_map_data = EmptyDict
    /\ translated_entries = EmptyDict
    /\ gen = NoGenerate
    /\ pc = "new"
    /\ fb = FbIdle
    /\ lg = LgIdle
    /\ MoreIdle

DecodeNext ==
    \/ Unpack
    \/ Flatten

SpecDecode == DecodeInit /\ [][DecodeNext]_vars

\* The extracted files the XML parser rejects, and the others.
Unparsable ==
    { p \in DOMAIN extracted :
        \E i \in 1..Len(extracted[p].content) :
            ~element_text(extracted[p].content[i].raw).ok }
Parsable == DOMAIN extracted \ Unparsable

\* C12: read_entries returns an empty mapping for a missing or unparsable file,
\* and flatten skips such a file: the entries of every other file reach the
\* ledger and the map, and flatten returns True.
C12_SoftDecodeFailure ==
    /\ read_entries(NoFile) = EmptyDict
    /\ \A p \in Unparsable : read_entries(extracted[p]) = EmptyDict
    /\ pc \in {"flat", "reflat"} =>
          /\ fl.ret
          /\ fl.xml_files_found = Cardinality(DOMAIN extracted)
          /\ ElementNames(out_xml) = UNION { ElementNames(extracted[p]) : p \in Parsable }
          /\ DOMAIN u_map_data = ElementNames(out_xml)
          /\ DOMAIN read_map_file(map_file).map_data = ElementNames(out_xml)
          /\ \A n \in DOMAIN u_map_data :
                \E p \in Parsable :
                    /\ u_map_data[n] = path_str(p)
                    /\ n \in ElementNames(extracted[p])

\* A file that does not parse was skipped and a name of another file is in
\* the ledger.
C12_Witness ==
    /\ pc = "flat"
    /\ fl.ret
    /\ \E p \in Unparsable : K1 \in ElementNames(extracted[p])
    /\ Parsable # {}
    /\ ElementNames(out_xml) = {K2}

(***************************************************************************)
(* fbtranslator.py: Unpacker                                               *)
(***************************************************************************)
\* A file of the extracted tree is [ok, content]: ok tells whether ET.parse
\* accepts it, content is the sequence of its <string> elements [name, text].

\* Unpacker.flatten, the loop over the <string> elements of one file: every
\* element is appended to the root, and its path to self.entries[name].
RECURSIVE fu_strings(_, _, _)
fu_strings(strings, rel_path, st) ==
    IF strings = <<>> THEN st
    ELSE LET name == Head(strings).name
             known == name \in DOMAIN st.entries.paths
         IN  IF name = <<>> THEN fu_strings(Tail(strings), rel_path, st)
             ELSE fu_strings(Tail(strings), rel_path,
                     [ok |-> st.ok,
                      entries |->
                          [keys |-> IF known THEN st.entries.keys
                                    ELSE Append(st.entries.keys, name),
                           paths |-> dict_set(st.entries.paths, name,
                                        Append(IF known THEN st.entries.paths[name]
                                               ELSE <<>>, rel_path))],
                      root |-> Append(st.root,
                                      [name |-> name, text |-> Head(strings).text])])

\* Unpacker.flatten, the loop over rglob("*.xml"): ET.parse raises on a file
\* that does not parse, which ends flatten in its except clause.
RECURSIVE fu_files(_, _, _)
fu_files(walk, dir, st) ==
    IF walk = <<>> THEN st
    ELSE IF ~dir[Head(walk)].ok THEN [st EXCEPT !.ok = FALSE]
    ELSE fu_files(Tail(walk), dir,
                  fu_strings(dir[Head(walk)].content, Head(walk), st))

\* The lines Unpacker.flatten writes to the mapping file.
RECURSIVE fu_map_lines(_, _)
fu_map_lines(keys, paths) ==
    IF keys = <<>> THEN <<>>
    ELSE [i \in 1..Len(paths[Head(keys)]) |->
             Head(keys) \o <<":", ":">> \o paths[Head(keys)][i]]
         \o fu_map_lines(Tail(keys), paths)

\* Inputs of the fbtranslator Unpacker.
FuPaths == { path_str(<<values, s_xml>>), path_str(<<values_en, s_xml>>),
             path_str(<<layout, x_xml>>) }
FuFiles ==
    { [ok |-> FALSE, content |-> <<>>] }
        \cup { [ok |-> TRUE, content |-> c]
               : c \in { <<>>,
                         <<[name |-> K1, text |-> Hi]>>,
                         <<[name |-> K2, text |-> Bye]>>,
                         <<[name |-> K1, text |-> Hi], [name |-> K2, text |-> Bye]>> } }
FuArchives ==
    UNION { [D -> FuFiles]
            : D \in {S \in SUBSET FuPaths : Cardinality(S) <= MaxFiles} }

FuInit ==
    /\ AtIdle
    /\ fb = FbIdle
    /\ lg = LgIdle
    /\ out_zip = OutIdle
    /\ app = AppIdle
    /\ codec = CodecIdle
    /\ tx = TxIdle
    /\ task = TaskIdle
    /\ gui = GuiIdle
    /\ \E zip \in FuArchives, there \in BOOLEAN :
          fu = [stage |-> "new",
                in_zip |-> [exists |-> there, files |-> zip],
                out_dir |-> [exists |-> FALSE, files |-> EmptyDict],
                entries |-> NoEntries,
                out_xml |-> NoFile,
                map_file |-> NoFile,
                unpacked |-> FALSE,
                ret |-> FALSE,
                runs |-> 0]

\* Unpacker.unpack
FuUnpack ==
    /\ fu.stage = "new"
    /\ IF ~fu.in_zip.exists
       THEN fu' = [fu EXCEPT !.unpacked = FALSE, !.stage = "unpack failed"]
       ELSE fu' = [fu EXCEPT
                      !.unpacked = TRUE,
                      !.stage = "unpacked",
                      !.out_dir =
                          [exists |-> TRUE,
                           files |-> [p \in DOMAIN fu.out_dir.files
                                              \cup DOMAIN fu.in_zip.files |->
                                         IF p \in DOMAIN fu.in_zip.files
                                         THEN fu.in_zip.files[p]
                                         ELSE fu.out_dir.files[p]]]]
    /\ UNCHANGED <<atVars, fb, lg, codec, tx, task, gui, out_zip, app>>

\* Unpacker.flatten, on any order of the directory walk.
FuFlatten ==
    /\ fu.stage \in {"new", "unpacked", "unpack failed", "flat"}
    /\ fu.runs < MaxRuns
    /\ IF ~fu.out_dir.exists
       THEN fu' = [fu EXCEPT !.ret = FALSE, !.stage = "flat", !.runs = @ + 1]
       ELSE \E walk \in Walks(DOMAIN fu.out_dir.files) :
            \E st \in {fu_files(walk, fu.out_dir.files,
                                [ok |-> TRUE, entries |-> fu.entries, root |-> <<>>])} :
               fu' = [fu EXCEPT
                         !.entries = st.entries,
                         !.out_xml = IF st.ok THEN File(st.root) ELSE @,
                         !.map_file = IF st.ok
                                      THEN File(fu_map_lines(st.entries.keys,
                                                             st.entries.paths))
                                      ELSE @,
                         !.ret = st.ok,
                         !.stage = "flat",
                         !.runs = @ + 1]
    /\ UNCHANGED <<atVars, fb, lg, codec, tx, task, gui, out_zip, app>>

FuNext ==
    \/ FuUnpack
    \/ FuFlatten

SpecFU == FuInit /\ [][FuNext]_vars

\* The files of the extracted directory that parse, and the others.
FuParsable == { p \in DOMAIN fu.out_dir.files : fu.out_dir.files[p].ok }
FuBroken == DOMAIN fu.out_dir.files \ FuParsable

\* The (name, path) occurrences of the files that parse.
FuOccurrences ==
    UNION { { <<fu.out_dir.files[p].content[i].name, p>>
              : i \in 1..Len(fu.out_dir.files[p].content) }
            : p \in FuParsable }

\* C13: when one XML file under the extracted directory cannot be parsed,
\* flatten skips that file, still writes the flattened XML and the mapping
\* file with the entries of all other files, and returns True.
C13_SoftDecodeFailureFB ==
    (fu.stage = "flat" /\ fu.out_dir.exists /\ fu.runs = 1
     /\ Cardinality(FuBroken) = 1) =>
        /\ fu.ret
        /\ fu.out_xml.exists
        /\ { fu.out_xml.content[i].name : i \in 1..Len(fu.out_xml.content) }
               = { o[1] : o \in FuOccurrences }
        /\ fu.map_file.exists
        /\ { fu.map_file.content[i] : i \in 1..Len(fu.map_file.content) }
               = { o[1] \o <<":", ":">> \o o[2] : o \in FuOccurrences }


\* ---------------------------------------------------------------------------
\* auto_translator.translate_xml, statement by statement, with the stop event
\* of the task that runs it (App.run_task_in_thread, App.cancel_task).
\* ---------------------------------------------------------------------------

\* str.isspace: a non-empty text of white space only.
isspace(s) == s # <<>> /\ \A i \in 1..Len(s) : s[i] = " "

\* `not text or text.isspace()`, the entries the loop copies without a call.
is_blank_never(text) == FALSE
is_blank(text) == text = <<>> \/ isspace(text)

\* `stop_event and stop_event.is_set()`: the task always passes an Event.
is_set_never(stop_event) == FALSE
is_set(stop_event) == stop_event

\* The names of a ledger file in the order of their first occurrence, the
\* order source_entries.items() yields them in.
RECURSIVE items_order(_, _, _)
items_order(content, i, acc) ==
    IF i > Len(content) THEN acc
    ELSE IF \E j \in 1..Len(acc) : acc[j] = content[i].name
    THEN items_order(content, i + 1, acc)
    ELSE items_order(content, i + 1, Append(acc, content[i].name))

\* The texts of the source ledgers: a text, no text, white space only.
Blank == <<" ">>
TxTexts(n) == {IF n = K1 THEN Hi ELSE Bye, <<>>, Blank}

\* The source ledgers: no file, or a flattened XML over some of the names.
TxLedgers ==
    {NoFile} \cup
    UNION { { File([i \in 1..Len(sorted(S)) |->
                       [name |-> sorted(S)[i], raw |-> f[sorted(S)[i]]]])
              : f \in { g \in [S -> UNION {TxTexts(n) : n \in S}] :
                        \A n \in S : g[n] \in TxTexts(n) } }
            : S \in SUBSET Names }

\* What one call of translator.translate does: it returns a text, returns
\* None, or raises one of the exceptions the loop has a clause for.
Failures == {"None", "NotValidPayload", "TranslationNotFound",
             "ConnectionError", "Exception"}
Outcomes == {"text"} \cup Failures

\* What the loop stores for an entry after its call: the text returned (an
\* empty one included), the original in every other case.
stored_nothing(outcome, text) == IF outcome = "text" THEN Tr(text) ELSE <<>>
stored(outcome, text) == IF outcome = "text" THEN Tr(text) ELSE text

NeverSet == [stage |-> "never", i |-> 0]

\* translate_xml(source_xml, target_xml, ..., stop_event) has been handed to a
\* task thread: the event is new, the target is not written yet.
TxInit ==
    /\ AtIdle
    /\ fb = FbIdle
    /\ lg = LgIdle
    /\ out_zip = OutIdle
    /\ app = AppIdle
    /\ codec = CodecIdle
    /\ task = TaskIdle
    /\ fu = FuIdle
    /\ gui = GuiIdle
    /\ \E src \in TxLedgers, ir \in BOOLEAN, wr \in BOOLEAN :
          tx = [stage |-> "given",
                source |-> src,
                target |-> NoFile,
                init_raises |-> ir,
                write_raises |-> wr,
                stop_event |-> FALSE,
                set_at |-> NeverSet,
                source_entries |-> EmptyDict,
                order |-> <<>>,
                i |-> 0,
                translated_entries |-> EmptyDict,
                calls |-> <<>>,
                errors |-> EmptyDict,
                ret |-> FALSE]

\* Lines 450-455: the source must exist; its entries are read.
TxRead ==
    /\ tx.stage = "given"
    /\ IF ~tx.source.exists
       THEN tx' = [tx EXCEPT !.stage = "done", !.ret = FALSE]
       ELSE \E e \in {read_entries(tx.source)} :
               tx' = [tx EXCEPT
                         !.source_entries = e,
                         !.order = IF DOMAIN e = {} THEN <<>>
                                   ELSE items_order(tx.source.content, 1, <<>>),
                         !.stage = IF DOMAIN e = {} THEN "empty" ELSE "read"]
    /\ UNCHANGED <<atVars, fb, lg, codec, task, fu, gui, out_zip, app>>

\* Lines 456-465: no entries, an empty target is written without a look at
\* the stop event.
TxWriteEmpty ==
    /\ tx.stage = "empty"
    /\ IF tx.write_raises
       THEN tx' = [tx EXCEPT !.stage = "done", !.ret = FALSE]
       ELSE tx' = [tx EXCEPT !.stage = "done", !.ret = TRUE,
                             !.target = write_entries(EmptyDict)]
    /\ UNCHANGED <<atVars, fb, lg, codec, task, fu, gui, out_zip, app>>

\* Lines 467-481: the translator is created, or its constructor raises.
TxTranslator ==
    /\ tx.stage = "read"
    /\ IF tx.init_raises
       THEN tx' = [tx EXCEPT !.stage = "done", !.ret = FALSE]
       ELSE tx' = [tx EXCEPT !.stage = "loop", !.i = 1,
                             !.translated_entries = EmptyDict]
    /\ UNCHANGED <<atVars, fb, lg, codec, task, fu, gui, out_zip, app>>

\* Lines 483-488, the top of the loop: the stop event is read before the
\* entry. Lines 536-540, after the last entry: it is read once more.
TxLoopTop ==
    /\ tx.stage = "loop"
    /\ IF is_set(tx.stop_event)
       THEN tx' = [tx EXCEPT !.stage = "done", !.ret = FALSE]
       ELSE IF tx.i > Len(tx.order)
       THEN tx' = [tx EXCEPT !.stage = "write"]
       ELSE tx' = [tx EXCEPT !.stage = "entry"]
    /\ UNCHANGED <<atVars, fb, lg, codec, task, fu, gui, out_zip, app>>

\* Lines 490-501: progress is reported; a blank text is copied, for any other
\* text the call of translator.translate starts.
TxEntry ==
    /\ tx.stage = "entry"
    /\ LET name == tx.order[tx.i]
           text == tx.source_entries[name]
       IN  IF is_blank(text)
           THEN tx' = [tx EXCEPT
                          !.translated_entries = dict_set(@, name, text),
                          !.i = @ + 1,
                          !.stage = "loop"]
           ELSE tx' = [tx EXCEPT !.calls = Append(@, name), !.stage = "call"]
    /\ UNCHANGED <<atVars, fb, lg, codec, task, fu, gui, out_zip, app>>

\* Lines 501-534: the call returns or raises, the entry is stored.
TxCallReturns ==
    /\ tx.stage = "call"
    /\ \E outcome \in Outcomes :
          LET name == tx.order[tx.i]
              text == tx.source_entries[name]
          IN  tx' = [tx EXCEPT
                        !.translated_entries =
                            dict_set(@, name, stored(outcome, text)),
                        !.errors = IF outcome = "text" THEN @
                                   ELSE dict_set(@, name, outcome),
                        !.i = @ + 1,
                        !.stage = "loop"]
    /\ UNCHANGED <<atVars, fb, lg, codec, task, fu, gui, out_zip, app>>

\* Lines 542-551: the target is written.
TxWrite ==
    /\ tx.stage = "write"
    /\ IF tx.write_raises
       THEN tx' = [tx EXCEPT !.stage = "done", !.ret = FALSE]
       ELSE tx' = [tx EXCEPT !.stage = "done", !.ret = TRUE,
                             !.target = write_entries(tx.translated_entries)]
    /\ UNCHANGED <<atVars, fb, lg, codec, task, fu, gui, out_zip, app>>

\* App.cancel_task, on the GUI thread while the task thread runs: the event
\* is set. set_at remembers where translate_xml stood at that moment.
TxCancel ==
    /\ tx.stage \notin {"idle", "done"}
    /\ ~tx.stop_event
    /\ tx' = [tx EXCEPT !.stop_event = TRUE,
                        !.set_at = [stage |-> tx.stage, i |-> tx.i]]
    /\ UNCHANGED <<atVars, fb, lg, codec, task, fu, gui, out_zip, app>>

TxNext ==
    \/ TxRead
    \/ TxWriteEmpty
    \/ TxTranslator
    \/ TxLoopTop
    \/ TxEntry
    \/ TxCallReturns
    \/ TxWrite
    \/ TxCancel

SpecTx == TxInit /\ [][TxNext]_vars

\* ---------------------------------------------------------------------------
\* Properties of translate_xml
\* ---------------------------------------------------------------------------

\* The position of an entry in the order of the loop.
TxIndex(n) == CHOOSE k \in 1..Len(tx.order) : tx.order[k] = n

\* The number of calls of the translation service started for an entry.
TxCount(n) == Cardinality({k \in 1..Len(tx.calls) : tx.calls[k] = n})

\* A text that is empty or white space only.
Whitespace(text) == \A k \in 1..Len(text) : text[k] = " "

\* The event was set while the loop over the entries was running.
SetInLoop == tx.stop_event /\ tx.set_at.stage \in {"loop", "entry", "call"}

\* C16: when the stop event is set while translate_xml is translating, the
\* target ledger is still written: it holds every source name, with the
\* translation for the entries already translated and the original text for
\* the entries not yet translated.
C16_PartialLedger ==
    (tx.stage = "done" /\ SetInLoop /\ ~tx.write_raises) =>
        /\ tx.target.exists
        /\ {tx.target.content[j].name : j \in 1..Len(tx.target.content)}
              = DOMAIN tx.source_entries
        /\ \A j \in 1..Len(tx.target.content) :
              LET n == tx.target.content[j].name
              IN  tx.target.content[j].raw =
                      IF n \in DOMAIN tx.translated_entries
                      THEN tx.translated_entries[n]
                      ELSE tx.source_entries[n]

\* The last entry whose call may still start once the event is set: the
\* entry in progress at that moment, if there was one.
LastStarted ==
    CASE tx.set_at.stage \in {"entry", "call"} -> tx.set_at.i
      [] tx.set_at.stage = "loop" -> tx.set_at.i - 1
      [] tx.set_at.stage \in {"given", "read"} -> 0
      [] OTHER -> Len(tx.order)

NoLaterCall == \A k \in 1..Len(tx.calls) : TxIndex(tx.calls[k]) <= LastStarted

InFlightCompletes ==
    tx.set_at.stage \in {"entry", "call"} =>
        tx.order[tx.set_at.i] \in DOMAIN tx.translated_entries

\* C17 as stated: once the stop event is set, the entry in flight completes,
\* no call for a later entry is started, and translate_xml returns False.
C17_CooperativeCancellation ==
    tx.stop_event =>
        /\ NoLaterCall
        /\ tx.stage = "done" => (InFlightCompletes /\ tx.ret = FALSE)

\* C17: the stop event is read before each entry and once more after the
\* last one. Once it is set, the entry in flight completes and no call for a
\* later entry is started; translate_xml returns False when the ledger has
\* entries and the event was set before the last of these reads. An event
\* set later, while the target is written, or in a run over a ledger without
\* entries, does not change the result.
C17_CancelBeforeLastRead ==
    tx.stop_event =>
        /\ NoLaterCall
        /\ tx.stage = "done" =>
              /\ InFlightCompletes
              /\ (tx.set_at.stage \notin {"empty", "write"}
                  /\ DOMAIN tx.source_entries # {}) => tx.ret = FALSE

\* The event is set during the call for the first of two entries: that entry
\* is stored, the second is never sent, the result is False.
C17_Witness ==
    /\ tx.stage = "done"
    /\ tx.stop_event
    /\ tx.set_at = [stage |-> "call", i |-> 1]
    /\ Len(tx.order) = 2
    /\ tx.calls = <<tx.order[1]>>
    /\ ~is_blank(tx.source_entries[tx.order[2]])
    /\ tx.order[1] \in DOMAIN tx.translated_entries
    /\ tx.ret = FALSE

\* Each entry with a text was sent once, no blank entry was sent, and the
\* blank entries are in the output with their text.
OncePerEntry ==
    \A n \in DOMAIN tx.source_entries :
        LET text == tx.source_entries[n]
        IN  /\ TxCount(n) = IF Whitespace(text) THEN 0 ELSE 1
            /\ Whitespace(text) =>
                  /\ n \in DOMAIN tx.translated_entries
                  /\ tx.translated_entries[n] = text
                  /\ tx.ret => \E j \in 1..Len(tx.target.content) :
                                  /\ tx.target.content[j].name = n
                                  /\ tx.target.content[j].raw = text

step_failed_ignore(success, stop_event) == stop_event
step_failed(success, stop_event) == ~success \/ stop_event

Stages == <<"unpack_flatten", "translate", "reconstruct_pack">>

\* The task has been handed to its thread with a new stop event; what each
\* backend call of this run will return is fixed by the files it works on.
TaskInit ==
    /\ AtIdle
    /\ fb = FbIdle
    /\ lg = LgIdle
    /\ out_zip = OutIdle
    /\ app = AppIdle
    /\ codec = CodecIdle
    /\ tx = TxIdle
    /\ fu = FuIdle
    /\ gui = GuiIdle
    /\ \E u \in BOOLEAN, f \in BOOLEAN, t \in BOOLEAN,
          g \in BOOLEAN, p \in BOOLEAN :
          task = [stage |-> "given",
                  unpack |-> u, flatten |-> f, translate_xml |-> t,
                  generate |-> g, pack |-> p,
                  stop_event |-> FALSE,
                  step1_success |-> FALSE,
                  step2_success |-> FALSE,
                  step3_success |-> FALSE,
                  started |-> <<>>,
                  seen |-> <<>>,
                  ret |-> FALSE]

\* Lines 1034-1038: step 1 is called.
TaskStart ==
    /\ task.stage = "given"
    /\ task' = [task EXCEPT !.stage = "unpack",
                            !.started = Append(@, Stages[1])]
    /\ UNCHANGED <<atVars, fb, lg, codec, tx, fu, gui, out_zip, app>>

\* _unpack_and_flatten, lines 939-949: unpacker.unpack(), and only when it
\* succeeded unpacker.flatten().
TaskUnpack ==
    /\ task.stage = "unpack"
    /\ IF task.unpack
       THEN task' = [task EXCEPT !.stage = "flatten"]
       ELSE task' = [task EXCEPT !.stage = "check1", !.step1_success = FALSE]
    /\ UNCHANGED <<atVars, fb, lg, codec, tx, fu, gui, out_zip, app>>

TaskFlatten ==
    /\ task.stage = "flatten"
    /\ task' = [task EXCEPT !.stage = "check1",
                            !.step1_success = task.flatten]
    /\ UNCHANGED <<atVars, fb, lg, codec, tx, fu, gui, out_zip, app>>

\* Lines 1039-1055: the result of step 1 and then the stop event are read;
\* when both allow it translate_xml is called.
TaskCheck1 ==
    /\ task.stage = "check1"
    /\ \E seen \in {IF task.step1_success
                    THEN Append(task.seen, task.stop_event) ELSE task.seen} :
          IF step_failed(task.step1_success, task.stop_event)
          THEN task' = [task EXCEPT !.stage = "done", !.ret = FALSE,
                                    !.seen = seen]
          ELSE task' = [task EXCEPT !.stage = "translate", !.seen = seen,
                                    !.started = Append(@, Stages[2])]
    /\ UNCHANGED <<atVars, fb, lg, codec, tx, fu, gui, out_zip, app>>

\* translate_xml returns.
TaskTranslate ==
    /\ task.stage = "translate"
    /\ task' = [task EXCEPT !.stage = "check2",
                            !.step2_success = task.translate_xml]
    /\ UNCHANGED <<atVars, fb, lg, codec, tx, fu, gui, out_zip, app>>

\* Lines 1056-1066: the same for step 2, then _reconstruct_and_pack is called.
TaskCheck2 ==
    /\ task.stage = "check2"
    /\ \E seen \in {IF task.step2_success
                    THEN Append(task.seen, task.stop_event) ELSE task.seen} :
          IF step_failed(task.step2_success, task.stop_event)
          THEN task' = [task EXCEPT !.stage = "done", !.ret = FALSE,
                                    !.seen = seen]
          ELSE task' = [task EXCEPT !.stage = "generate", !.seen = seen,
                                    !.started = Append(@, Stages[3])]
    /\ UNCHANGED <<atVars, fb, lg, codec, tx, fu, gui, out_zip, app>>

\* _reconstruct_and_pack, lines 982-993: packer.generate(), and only when it
\* succeeded packer.pack().
TaskGenerate ==
    /\ task.stage = "generate"
    /\ IF task.generate
       THEN task' = [task EXCEPT !.stage = "pack"]
       ELSE task' = [task EXCEPT !.stage = "check3", !.step3_success = FALSE]
    /\ UNCHANGED <<atVars, fb, lg, codec, tx, fu, gui, out_zip, app>>

TaskPack ==
    /\ task.stage = "pack"
    /\ task' = [task EXCEPT !.stage = "check3", !.step3_success = task.pack]
    /\ UNCHANGED <<atVars, fb, lg, codec, tx, fu, gui, out_zip, app>>

\* Lines 1067-1073: the same for step 3, then the task returns True.
TaskCheck3 ==
    /\ task.stage = "check3"
    /\ \E seen \in {IF task.step3_success
                    THEN Append(task.seen, task.stop_event) ELSE task.seen} :
          task' = [task EXCEPT
                      !.stage = "done", !.seen = seen,
                      !.ret = ~step_failed(task.step3_success,
                                           task.stop_event)]
    /\ UNCHANGED <<atVars, fb, lg, codec, tx, fu, gui, out_zip, app>>

\* App.cancel_task while the task thread runs.
TaskCancel ==
    /\ task.stage \notin {"idle", "done"}
    /\ ~task.stop_event
    /\ task' = [task EXCEPT !.stop_event = TRUE]
    /\ UNCHANGED <<atVars, fb, lg, codec, tx, fu, gui, out_zip, app>>

TaskNext ==
    \/ TaskStart
    \/ TaskUnpack
    \/ TaskFlatten
    \/ TaskCheck1
    \/ TaskTranslate
    \/ TaskCheck2
    \/ TaskGenerate
    \/ TaskPack
    \/ TaskCheck3
    \/ TaskCancel

SpecTask == TaskInit /\ [][TaskNext]_vars

\* C18: the stages are started in the order unpack/flatten, translate,
\* reconstruct/pack, none twice and none after a later one; a stage is started
\* only after the stage before it returned success and the read of the stop
\* event after it found no cancel requested; the task returns True only when
\* all three stages returned success.
C18_PipelineOrder ==
    /\ task.started = SubSeq(Stages, 1, Len(task.started))
    /\ Len(task.started) >= 2 =>
          task.step1_success /\ Len(task.seen) >= 1 /\ ~task.seen[1]
    /\ Len(task.started) >= 3 =>
          task.step2_success /\ Len(task.seen) >= 2 /\ ~task.seen[2]
    /\ (task.stage = "done" /\ task.ret) =>
          /\ task.step1_success /\ task.step2_success /\ task.step3_success
          /\ task.started = Stages
          /\ task.seen = <<FALSE, FALSE, FALSE>>

\* A run in which all three stages ran, in order, and the task returned True.
C18_Witness ==
    /\ task.stage = "done"
    /\ task.ret
    /\ task.started = Stages
    /\ task.step1_success /\ task.step2_success /\ task.step3_success


\* ---------------------------------------------------------------------------
\* fbtranslator_gui XMLZipTranslatorApp: the path fields and the handlers of
\* the three action buttons. A handler runs on the GUI thread from its first
\* line to its last. What the backend calls return is decided by the files on
\* disk, which the handlers do not choose: they are inputs of the run.
\* ---------------------------------------------------------------------------

\* What a file dialog returns: no path when it is cancelled, or a path.
Chosen(path) == {"", path}

\* A handler's trace: the backend calls it made and the messages it logged.
NoTrace == [calls |-> <<>>, log |-> <<>>]
called(h, c) == [h EXCEPT !.calls = Append(@, c)]
logged(h, m) == [h EXCEPT !.log = Append(@, m)]

\* unpack_zip, lines 248-275: the three fields are required; flatten is
\* called only when unpack succeeded. Every path ends the same way, by
\* returning None.
unpack_zip(g, h) ==
    IF g.in_zip = "" THEN logged(h, "please select the source ZIP file")
    ELSE IF g.en_xml = "" THEN logged(h, "please select the source XML file")
    ELSE IF g.map_file = "" THEN logged(h, "please select the mapping file")
    ELSE IF ~g.unpack
    THEN logged(called(h, "unpack"), "cannot unpack ZIP file")
    ELSE IF ~g.flatten
    THEN logged(called(called(h, "unpack"), "flatten"),
                "cannot flatten XML file")
    ELSE called(called(h, "unpack"), "flatten")

\* reconstruct_pack, lines 277-304: the three fields are required; pack is
\* called only when generate succeeded.
reconstruct_pack(g, h) ==
    IF g.out_xml = "" THEN logged(h, "please specify the translated XML file")
    ELSE IF g.map_file = "" THEN logged(h, "please specify the mapping file")
    ELSE IF g.out_zip = "" THEN logged(h, "please specify the output ZIP file")
    ELSE IF ~g.generate
    THEN logged(called(h, "generate"), "cannot generate output folders.")
    ELSE IF ~g.pack
    THEN logged(called(called(h, "generate"), "pack"),
                "cannot pack output ZIP file.")
    ELSE called(called(h, "generate"), "pack")

\* run_all_steps, lines 306-309: unpack_zip(), a message, reconstruct_pack().
run_all_steps(g, h) == reconstruct_pack(g, unpack_zip(g, h))

\* __init__, lines 31-49: all path fields empty.
GuiInit ==
    /\ AtIdle
    /\ fb = FbIdle
    /\ lg = LgIdle
    /\ out_zip = OutIdle
    /\ app = AppIdle
    /\ codec = CodecIdle
    /\ tx = TxIdle
    /\ task = TaskIdle
    /\ fu = FuIdle
    /\ \E u \in BOOLEAN, f \in BOOLEAN, g \in BOOLEAN, p \in BOOLEAN :
          gui = [stage |-> "ready",
                 in_zip |-> "", out_zip |-> "", map_file |-> "",
                 en_xml |-> "", out_xml |-> "",
                 unpack |-> u, flatten |-> f, generate |-> g, pack |-> p,
                 last |-> "none",
                 trace |-> NoTrace,
                 ret |-> None]

\* browse_zip, save_zip, browse_map, browse_flatten_xml,
\* browse_translated_xml: the field takes what the dialog returned.
GuiBrowse ==
    /\ gui.stage = "ready"
    /\ \/ \E v \in Chosen("en.zip") : gui' = [gui EXCEPT !.in_zip = v]
       \/ \E v \in Chosen("out.zip") : gui' = [gui EXCEPT !.out_zip = v]
       \/ \E v \in Chosen("map") : gui' = [gui EXCEPT !.map_file = v]
       \/ \E v \in Chosen("en.xml") : gui' = [gui EXCEPT !.en_xml = v]
       \/ \E v \in Chosen("zh.xml") : gui' = [gui EXCEPT !.out_xml = v]
    /\ UNCHANGED <<atVars, fb, lg, codec, tx, task, fu, out_zip, app>>

\* The button "1. Unpack & Flatten".
GuiUnpackZip ==
    /\ gui.stage = "ready"
    /\ gui' = [gui EXCEPT !.last = "unpack_zip",
                          !.trace = unpack_zip(gui, NoTrace),
                          !.ret = None]
    /\ UNCHANGED <<atVars, fb, lg, codec, tx, task, fu, out_zip, app>>

\* The button "3. Reconstruct & Pack".
GuiReconstructPack ==
    /\ gui.stage = "ready"
    /\ gui' = [gui EXCEPT !.last = "reconstruct_pack",
                          !.trace = reconstruct_pack(gui, NoTrace),
                          !.ret = None]
    /\ UNCHANGED <<atVars, fb, lg, codec, tx, task, fu, out_zip, app>>

\* The button "Run All Steps".
GuiRunAllSteps ==
    /\ gui.stage = "ready"
    /\ gui' = [gui EXCEPT !.last = "run_all_steps",
                          !.trace = run_all_steps(gui, NoTrace),
                          !.ret = None]
    /\ UNCHANGED <<atVars, fb, lg, codec, tx, task, fu, out_zip, app>>

GuiNext ==
    \/ GuiBrowse
    \/ GuiUnpackZip
    \/ GuiReconstructPack
    \/ GuiRunAllSteps

SpecGui == GuiInit /\ [][GuiNext]_vars

\* The first stage of a run did not succeed: a field it needs is empty, or
\* unpack or flatten returned False.
UnpackStageFailed ==
    \/ gui.in_zip = "" \/ gui.en_xml = "" \/ gui.map_file = ""
    \/ ~gui.unpack \/ ~gui.flatten

\* C19: in run_all_steps, when unpacking or flattening fails or an input path
\* is missing, the failure reaches the caller and the reconstruct-and-pack
\* stage is not started in that run.
C19_FailedStageStops ==
    (gui.last = "run_all_steps" /\ UnpackStageFailed) =>
        /\ gui.ret # None
        /\ \A k \in 1..Len(gui.trace.calls) :
              gui.trace.calls[k] \notin {"generate", "pack"}


\* ---------------------------------------------------------------------------
\* translate_xml: what a failed call leaves behind
\* ---------------------------------------------------------------------------

\* Every failed call left the original text in its entry.
OriginalKept ==
    \A n \in DOMAIN tx.errors :
        /\ n \in DOMAIN tx.translated_entries
        /\ tx.translated_entries[n] = tx.source_entries[n]

\* The run went on after the failures and wrote the whole ledger.
LedgerWritten ==
    /\ tx.ret
    /\ tx.target.exists
    /\ {tx.target.content[j].name : j \in 1..Len(tx.target.content)}
          = DOMAIN tx.source_entries
    /\ \A j \in 1..Len(tx.target.content) :
          tx.target.content[j].name \in DOMAIN tx.errors =>
              tx.target.content[j].raw =
                  tx.source_entries[tx.target.content[j].name]
    /\ \A n \in DOMAIN tx.source_entries :
          ~Whitespace(tx.source_entries[n]) => TxCount(n) = 1

\* C21 as stated: when the call for an entry fails (invalid payload,
\* translation not found, connection error, any other exception, a None
\* result), the original text is stored for that entry and the loop goes on
\* with the next entry; every run that is not cancelled then writes a ledger
\* with the name set of the source ledger and returns True.
C21_FailureKeepsOriginalAlways ==
    /\ OriginalKept
    /\ (tx.stage = "done" /\ ~tx.stop_event /\ DOMAIN tx.errors # {}) =>
          LedgerWritten

\* C21: when the call for an entry fails, the original text is stored for
\* that entry and the loop goes on with the next entry; a run that is not
\* cancelled then writes a ledger with the name set of the source ledger and
\* returns True, unless writing the target file raises, in which case it
\* returns False.
C21_FailureKeepsOriginal ==
    /\ OriginalKept
    /\ (tx.stage = "done" /\ ~tx.stop_event /\ DOMAIN tx.errors # {}) =>
          IF tx.write_raises THEN ~tx.ret /\ ~tx.target.exists
          ELSE LedgerWritten

\* The call for the first of two entries failed, the second was translated,
\* the ledger was written.
C21_Witness ==
    /\ tx.stage = "done"
    /\ ~tx.stop_event
    /\ tx.ret
    /\ Len(tx.order) = 2
    /\ DOMAIN tx.errors = {tx.order[1]}
    /\ tx.errors[tx.order[1]] = "NotValidPayload"
    /\ tx.translated_entries[tx.order[1]] = tx.source_entries[tx.order[1]]
    /\ tx.translated_entries[tx.order[2]] = Tr(tx.source_entries[tx.order[2]])
    /\ Len(tx.target.content) = 2

\* C22: when the call for an entry fails with a connection error,
\* translate_xml waits and calls the service again for the same entry; the
\* original text is stored only after repeated failure.
C22_TransientRetried ==
    \A n \in DOMAIN tx.errors :
        tx.errors[n] = "ConnectionError" => TxCount(n) >= 2


\* ---------------------------------------------------------------------------
\* auto_translator Unpacker.flatten: the ledger and the provenance map
\* ---------------------------------------------------------------------------

\* The names of all extracted files that decode to at least one entry.
TreeNames == UNION { DOMAIN Entries(p) : p \in DOMAIN extracted }

\* C24: after flatten returned True, the name set of the ledger is the union
\* of the name sets of all XML files under the extracted root that decoded to
\* at least one entry, and the provenance map has exactly the same name set.
C24_LedgerCoversTree ==
    fl.ret =>
        /\ ElementNames(out_xml) = TreeNames
        /\ DOMAIN u_map_data = TreeNames
        /\ DOMAIN read_map_file(map_file).map_data = TreeNames

\* Both names were flattened from files that decode, next to a file that did
\* not decode: the ledger and the map hold both names.
C24_Witness ==
    /\ fl.ret
    /\ Unparsable # {}
    /\ \E p1, p2 \in Parsable : K1 \in DOMAIN Entries(p1) /\ K2 \in DOMAIN Entries(p2)
    /\ ElementNames(out_xml) = {K1, K2}
    /\ DOMAIN u_map_data = {K1, K2}

\* C30: after flatten, for every name the path recorded in the provenance map
\* is a file that holds that name with exactly the text held in the ledger,
\* whatever the number of files that repeat the name and whatever the order
\* of the scan.
C30_TextAndPathAgree ==
    fl.ret =>
        \A n \in DOMAIN u_map_data :
            \E p \in DOMAIN extracted :
                /\ u_map_data[n] = path_str(p)
                /\ n \in DOMAIN Entries(p)
                /\ \E j \in DOMAIN out_xml.content :
                      /\ out_xml.content[j].name = n
                      /\ out_xml.content[j].raw = Entries(p)[n]

\* A name held by two files with different texts: the ledger has the text of
\* the file the map names.
C30_Witness ==
    /\ fl.ret
    /\ TwoTexts(K1)
    /\ \E p \in Carriers(K1) :
          /\ u_map_data[K1] = path_str(p)
          /\ \E j \in DOMAIN out_xml.content :
                /\ out_xml.content[j].name = K1
                /\ out_xml.content[j].raw = Entries(p)[K1]


\* ---------------------------------------------------------------------------
\* auto_translator Unpacker.flatten with the scan kept: the order in which
\* the files were met and the ledger and the map as they stood after each.
\* ---------------------------------------------------------------------------

\* The state of the loop of Unpacker.flatten after each file of the walk.
RECURSIVE flatten_trail(_, _, _)
flatten_trail(walk, dir, st) ==
    IF walk = <<>> THEN <<>>
    ELSE LET after == flatten_file(Head(walk), dir,
                                   read_entries(dir[Head(walk)]), st)
         IN  <<after>> \o flatten_trail(Tail(walk), dir, after)

ScanStart == [all_entries |-> EmptyDict, map_data |-> EmptyDict,
              warnings |-> <<>>, xml_files_found |-> 0]

ScanInit == Init

\* Unpacker.flatten, as the action Flatten, with the walk and the trail of
\* the loop remembered next to the result.
FlattenTraced ==
    /\ pc \in {"new", "unpacked", "flat"}
    /\ IF extract_dir = "None"
       THEN /\ fl' = NoFlatten
            /\ UNCHANGED <<out_xml, map_file, u_map_data, pc>>
       ELSE \E walk \in Walks(DOMAIN extracted) :
              \E st \in {flatten_walk(walk, extracted, ScanStart)} :
                  /\ u_map_data' = st.map_data
                  /\ out_xml' = write_entries(st.all_entries)
                  /\ map_file' = map_lines(st.map_data)
                  /\ fl' = [ret |-> TRUE, warnings |-> st.warnings,
                            xml_files_found |-> st.xml_files_found,
                            walk |-> walk,
                            trail |-> <<ScanStart>> \o
                                      flatten_trail(walk, extracted, ScanStart)]
                  /\ pc' = IF out_xml.exists THEN "reflat" ELSE "flat"
    /\ UNCHANGED <<in_zip, extracted, in_xml, translated_temp, extract_dir,
                   target_lang_suffix, p_map_data, translated_entries, gen,
                   fb, lg, moreVars>>

ScanNext ==
    \/ Unpack
    \/ FlattenTraced

SpecScan == ScanInit /\ [][ScanNext]_vars

\* The names the k-th file of the walk repeats with the text the ledger
\* already holds for them when the file is met.
IdenticalDuplicates(k) ==
    { n \in DOMAIN Entries(fl.walk[k]) :
        /\ n \in DOMAIN fl.trail[k].all_entries
        /\ fl.trail[k].all_entries[n] = Entries(fl.walk[k])[n] }

\* C23: when flatten meets a name that is already in the ledger with the same
\* text, the ledger entry and the provenance path recorded for that name are
\* both left unchanged.
C23_IdenticalDuplicateNoOp ==
    fl.ret =>
        \A k \in 1..Len(fl.walk) :
            \A n \in IdenticalDuplicates(k) :
                /\ fl.trail[k + 1].all_entries[n] = fl.trail[k].all_entries[n]
                /\ fl.trail[k + 1].map_data[n] = fl.trail[k].map_data[n]


\* ---------------------------------------------------------------------------
\* auto_translator Packer.generate and Packer.pack, run after run on the same
\* output location: translated_temp next to the output archive is the
\* directory every Packer for that archive works in.
\* ---------------------------------------------------------------------------

\* The provenance maps and the translated ledgers of the runs.
PackPaths == { path_str(<< <<"a">>, values, s_xml >>),
               path_str(<< res, values, strings_xml >>) }
PackMaps ==
    {NoFile} \cup
    UNION { { map_lines(m) : m \in [S -> PackPaths] }
            : S \in SUBSET Names \ {{}} }
PackLedgers == { write_entries([n \in S |-> Tr(Hi)]) : S \in {{K1}, Names} }

NoArchive == [exists |-> FALSE, files |-> EmptyDict]

\* A Packer has been made for a map, a translated ledger and an output
\* archive that does not exist yet; nothing is in translated_temp.
PackInit ==
    /\ in_zip = EmptyDict
    /\ extracted = EmptyDict
    /\ out_xml = NoFile
    /\ map_file \in PackMaps
    /\ in_xml \in PackLedgers
    /\ translated_temp = EmptyDict
    /\ extract_dir = "None"
    /\ u_map_data = EmptyDict
    /\ fl = NoFlatten
    /\ target_lang_suffix = zh
    /\ p_map_data = EmptyDict
    /\ translated_entries = EmptyDict
    /\ gen = NoGenerate
    /\ pc = "translated"
    /\ fb = FbIdle
    /\ lg = LgIdle
    /\ codec = CodecIdle
    /\ tx = TxIdle
    /\ task = TaskIdle
    /\ fu = FuIdle
    /\ gui = GuiIdle
    /\ app = AppIdle
    /\ out_zip = [stage |-> "disk", file |-> NoArchive, ret |-> FALSE, runs |-> 1]

\* self.target_dir is set: the last generate got past its early returns
\* (lines 294-309).
target_dir_set ==
    /\ read_map_file(map_file).ok
    /\ in_xml.exists
    /\ DOMAIN read_map_file(map_file).map_data # {}

\* Packer.pack, lines 370-406: every file under target_dir goes into a new
\* archive, then target_dir is removed; a failure to remove it is only
\* reported. Writing the archive may raise.
Pack ==
    /\ pc = "generated"
    /\ out_zip.stage = "disk"
    /\ IF ~target_dir_set
       THEN /\ out_zip' = [out_zip EXCEPT !.ret = FALSE]
            /\ UNCHANGED translated_temp
       ELSE \E raises \in BOOLEAN, removed \in BOOLEAN :
               IF raises
               THEN /\ out_zip' = [out_zip EXCEPT !.ret = FALSE]
                    /\ UNCHANGED translated_temp
               ELSE /\ out_zip' = [out_zip EXCEPT
                                      !.ret = TRUE,
                                      !.file = [exists |-> TRUE,
                                                files |-> translated_temp]]
                    /\ translated_temp' =
                           IF removed THEN EmptyDict ELSE translated_temp
    /\ pc' = "packed"
    /\ UNCHANGED <<in_zip, extracted, out_xml, map_file, in_xml, extract_dir,
                   u_map_data, fl, target_lang_suffix, p_map_data,
                   translated_entries, gen, fb, lg, codec, tx, task, fu, gui,
                   app>>

\* Packer.__init__, lines 236-249: a new Packer for the same files and the
\* same output archive, as every run of the GUI makes one.
NewPacker ==
    /\ pc \in {"generated", "packed"}
    /\ out_zip.stage = "disk"
    /\ out_zip.runs < MaxRuns
    /\ out_zip' = [out_zip EXCEPT !.runs = @ + 1, !.ret = FALSE]
    /\ target_lang_suffix' = zh
    /\ p_map_data' = EmptyDict
    /\ translated_entries' = EmptyDict
    /\ gen' = NoGenerate
    /\ pc' = "translated"
    /\ UNCHANGED <<in_zip, extracted, out_xml, map_file, in_xml,
                   translated_temp, extract_dir, u_map_data, fl, fb, lg,
                   codec, tx, task, fu, gui, app>>

PackNext ==
    \/ SetTargetLanguage
    \/ Generate
    \/ Pack
    \/ NewPacker

SpecPack == PackInit /\ [][PackNext]_vars

\* C25: after generate and pack both succeeded, the output archive holds
\* exactly the files of the target-path groups of that generate call,
\* whatever generate and pack calls ran before on the same output location.
C25_FreshOutputTree ==
    (pc = "packed" /\ gen.ret /\ out_zip.ret) =>
        /\ DOMAIN out_zip.file.files = ExpectedTargets
        /\ \A n \in Translated :
              HoldsEntry(out_zip.file.files,
                         RewrittenPath(p_map_data[n], target_lang_suffix),
                         n, translated_entries[n])


\* ---------------------------------------------------------------------------
\* fbtranslator Unpacker.flatten called again on the same object
\* ---------------------------------------------------------------------------

\* The lines of the mapping file that record the occurrence o.
FuLinesOf(o) ==
    { i \in 1..Len(fu.map_file.content) :
        fu.map_file.content[i] = o[1] \o <<":", ":">> \o o[2] }

\* The flattened XML and the mapping file are those of one scan of the tree:
\* one element and one line for each (name, path) occurrence.
FuOneScan ==
    /\ Len(fu.out_xml.content) = Cardinality(FuOccurrences)
    /\ Len(fu.map_file.content) = Cardinality(FuOccurrences)
    /\ \A o \in FuOccurrences : Cardinality(FuLinesOf(o)) = 1

\* C26: a second call of flatten on the same Unpacker object and the same
\* extracted tree writes a flattened XML and a mapping file identical to those
\* of the first call; the mapping holds each (name, path) occurrence of the
\* tree once.
C26_FlattenTwice ==
    (fu.stage = "flat" /\ fu.ret /\ fu.runs = 2) => FuOneScan


\* ---------------------------------------------------------------------------
\* fbtranslator Packer: mapped paths without a "values" directory
\* ---------------------------------------------------------------------------

\* The mapped paths none of whose directory segments starts with "values".
FbNoMarkerPaths ==
    { path_parts(r[2]) : r \in { q \in FbRecords : Len(q) = 2 } } \cap
    { path \in { path_parts(p) : p \in FbPaths } :
        \A i \in 1..(Len(path) - 1) : ~startswith(path[i], values) }

\* The first generate ran on a mapping file of records whose keys are all in
\* the translated XML.
FbAllTranslated ==
    /\ fb.stage = "generated"
    /\ fb.runs = 1
    /\ fb.in_xml.exists
    /\ \A r \in FbRecords : Len(r) = 2 /\ r[1] \in FbTranslatedKeys

\* C27: for every mapped relative path that has no directory segment starting
\* with "values", a file name alone included, modify_folder_name returns the
\* path unchanged and generate goes on and writes the entry there.
C27_NoMarkerNoOp ==
    FbAllTranslated =>
        \A path \in FbNoMarkerPaths :
            /\ modify_folder_name(path, fb.lang_suffix).ok
            /\ modify_folder_name(path, fb.lang_suffix).path = path
            /\ fb.ret
            /\ path_str(path) \in DOMAIN fb.out_dir
            /\ \A r \in FbRecords :
                  path_parts(r[2]) = path => FbNamed(path_str(path), r[1]) # {}


\* ---------------------------------------------------------------------------
\* auto_translator App: the main thread (button handlers, callbacks handed to
\* root.after) and the worker threads that run _thread_wrapper. App.stop_event
\* is read and written by both without a lock; every statement that touches
\* it is a step of its own.
\* ---------------------------------------------------------------------------
MaxTasks == 2

\* App.stop_event is None: no Event object.
NoEvent == 0

\* set_ui_state with nothing done to the buttons.
set_ui_state_ignored(a, state) == a

\* set_ui_state, lines 780-791: the action buttons take the state, the cancel
\* button the opposite one.
set_ui_state(a, state) ==
    [a EXCEPT !.buttons = state,
              !.cancel_button = IF state = "disabled" THEN "normal"
                                ELSE "disabled"]

\* __init__: buttons enabled, cancel button disabled, stop_event None, no
\* worker thread started yet.
AppInit ==
    /\ AtIdle
    /\ fb = FbIdle
    /\ lg = LgIdle
    /\ codec = CodecIdle
    /\ tx = TxIdle
    /\ task = TaskIdle
    /\ fu = FuIdle
    /\ gui = GuiIdle
    /\ out_zip = OutIdle
    /\ app = [stage |-> "running",
              buttons |-> "normal",
              cancel_button |-> "disabled",
              stop_event |-> NoEvent,
              events |-> <<>>,
              workers |-> <<>>,
              after |-> <<>>,
              main |-> "idle",
              cancel_for |-> {},
              cancelled |-> {},
              error |-> FALSE]

\* The workers whose task function is executing.
InTask(a) == { w \in 1..Len(a.workers) : a.workers[w].pc = "task" }

\* An action button is pressed: run_task_in_thread, lines 842-847. The
\* buttons are disabled and a new Event is stored in App.stop_event.
RunCreate ==
    /\ app.main = "idle"
    /\ app.buttons = "normal"
    /\ Len(app.workers) < MaxTasks
    /\ app' = [set_ui_state(app, "disabled") EXCEPT
                  !.events = Append(@, FALSE),
                  !.stop_event = Len(app.events) + 1,
                  !.main = "run"]
    /\ UNCHANGED <<atVars, fb, lg, codec, tx, task, fu, gui, out_zip>>

\* run_task_in_thread, lines 849-862: App.stop_event is read again for the
\* arguments of the task and the worker thread is started.
RunStart ==
    /\ app.main = "run"
    /\ app' = [app EXCEPT
                  !.workers = Append(@, [pc |-> "task",
                                         event |-> app.stop_event]),
                  !.main = "idle"]
    /\ UNCHANGED <<atVars, fb, lg, codec, tx, task, fu, gui, out_zip>>

\* _thread_wrapper, lines 870-886: the task function returns or raises.
TaskReturns ==
    /\ \E w \in InTask(app) :
          app' = [app EXCEPT !.workers[w].pc = "finally"]
    /\ UNCHANGED <<atVars, fb, lg, codec, tx, task, fu, gui, out_zip>>

\* _thread_wrapper, lines 887-894: set_ui_state(NORMAL) is handed to
\* root.after for the main thread.
WorkerAfter ==
    /\ \E w \in 1..Len(app.workers) :
          /\ app.workers[w].pc = "finally"
          /\ app' = [app EXCEPT !.workers[w].pc = "clear",
                                !.after = Append(@, "normal")]
    /\ UNCHANGED <<atVars, fb, lg, codec, tx, task, fu, gui, out_zip>>

\* _thread_wrapper, line 895: self.stop_event = None.
WorkerClear ==
    /\ \E w \in 1..Len(app.workers) :
          /\ app.workers[w].pc = "clear"
          /\ app' = [app EXCEPT !.workers[w].pc = "done",
                                !.stop_event = NoEvent]
    /\ UNCHANGED <<atVars, fb, lg, codec, tx, task, fu, gui, out_zip>>

\* The main loop runs a callback handed to root.after.
MainAfter ==
    /\ app.main = "idle"
    /\ app.after # <<>>
    /\ app' = [set_ui_state(app, Head(app.after)) EXCEPT !.after = Tail(@)]
    /\ UNCHANGED <<atVars, fb, lg, codec, tx, task, fu, gui, out_zip>>

\* The cancel button is pressed: cancel_task, line 898, `if self.stop_event`.
CancelTest ==
    /\ app.main = "idle"
    /\ app.cancel_button = "normal"
    /\ IF app.stop_event = NoEvent
       THEN app' = [app EXCEPT !.cancelled = @ \cup InTask(app)]
       ELSE app' = [app EXCEPT !.main = "cancel",
                               !.cancel_for = InTask(app)]
    /\ UNCHANGED <<atVars, fb, lg, codec, tx, task, fu, gui, out_zip>>

\* cancel_task, lines 899-901: self.stop_event.set(), an AttributeError when
\* App.stop_event has become None in between.
CancelSet ==
    /\ app.main = "cancel"
    /\ IF app.stop_event = NoEvent
       THEN app' = [app EXCEPT !.error = TRUE, !.main = "idle",
                               !.cancelled = @ \cup app.cancel_for,
                               !.cancel_for = {}]
       ELSE app' = [app EXCEPT !.events[app.stop_event] = TRUE,
                               !.cancel_button = "disabled",
                               !.main = "idle",
                               !.cancelled = @ \cup app.cancel_for,
                               !.cancel_for = {}]
    /\ UNCHANGED <<atVars, fb, lg, codec, tx, task, fu, gui, out_zip>>

AppNext ==
    \/ RunCreate
    \/ RunStart
    \/ TaskReturns
    \/ WorkerAfter
    \/ WorkerClear
    \/ MainAfter
    \/ CancelTest
    \/ CancelSet

SpecApp == AppInit /\ [][AppNext]_vars

\* C28: whenever a worker task is running and the user triggers cancel_task,
\* the stop event handed to that task becomes set and cancel_task raises no
\* error, in every interleaving with the end of a previous worker's
\* _thread_wrapper.
C28_CancelReachesTask ==
    /\ ~app.error
    /\ \A w \in app.cancelled :
          /\ app.workers[w].event # NoEvent
          /\ app.events[app.workers[w].event]

\* C29: at most one task function runs at any time: the action buttons are
\* disabled before the worker starts and enabled again only after its task
\* function has returned or raised, so run_task_in_thread is never entered
\* while a task function is still executing.
C29_OneTaskAtATime ==
    /\ Cardinality(InTask(app)) <= 1
    /\ app.buttons = "normal" => InTask(app) = {}
    /\ app.main = "run" => InTask(app) = {}

\* A second task runs after the first one has returned.
C29_Witness ==
    /\ Len(app.workers) = 2
    /\ app.workers[1].pc \in {"finally", "clear", "done"}
    /\ app.workers[2].pc = "task"
    /\ app.buttons = "disabled"

====
